---- MODULE Spec2Model ----
(***************************************************************************)
(* AspectSense: the local aspect-based sentiment analysis pipeline         *)
(* (services/localAnalysis, three revisions kept in the repository), the   *)
(* taxonomy discovery call (services/geminiService.ts) and the run that    *)
(* App.handleAnalyze drives through them.                                  *)
(*                                                                         *)
(* Texts are TLA+ strings, i.e. sequences of characters; Char(s, i) is the *)
(* one-character string at position i.  Scores are in hundredths: the      *)
(* compound 0.05 is 5, 0.85 is 85, the range [-1, 1] is -100 .. 100.       *)
(***************************************************************************)
EXTENDS Integers, Sequences, FiniteSets, TLC

(***************************************************************************)
(* Characters and strings (JavaScript String / RegExp primitives)          *)
(***************************************************************************)
Char(s, i) == SubSeq(s, i, i)

\* String.prototype.toLowerCase on the letters the model uses.
LowerOf ==
  [c \in {"A","B","C","D","E","F","G","H","I","J","K","L","M","N","O","P","Q",
          "R","S","T","U","V","W","X","Y","Z"} |->
     CASE c = "A" -> "a" [] c = "B" -> "b" [] c = "C" -> "c" [] c = "D" -> "d"
       [] c = "E" -> "e" [] c = "F" -> "f" [] c = "G" -> "g" [] c = "H" -> "h"
       [] c = "I" -> "i" [] c = "J" -> "j" [] c = "K" -> "k" [] c = "L" -> "l"
       [] c = "M" -> "m" [] c = "N" -> "n" [] c = "O" -> "o" [] c = "P" -> "p"
       [] c = "Q" -> "q" [] c = "R" -> "r" [] c = "S" -> "s" [] c = "T" -> "t"
       [] c = "U" -> "u" [] c = "V" -> "v" [] c = "W" -> "w" [] c = "X" -> "x"
       [] c = "Y" -> "y" [] c = "Z" -> "z"]

LowerChar(c) == IF c \in DOMAIN LowerOf THEN LowerOf[c] ELSE c

RECURSIVE toLowerCase(_)
toLowerCase(s) ==
  IF Len(s) = 0 THEN "" ELSE LowerChar(Char(s, 1)) \o toLowerCase(Tail(s))

\* \s of a RegExp: the white space the textarea can hold.
IsSpace(c) == c \in {" ", "\t", "\n"}

\* \w of a RegExp: [A-Za-z0-9_].
IsWordChar(c) ==
  LowerChar(c) \in {"a","b","c","d","e","f","g","h","i","j","k","l","m","n","o",
                    "p","q","r","s","t","u","v","w","x","y","z","0","1","2","3",
                    "4","5","6","7","8","9","_"}

\* The position after the longest run of white space that starts at i
\* (i itself when s[i] is no white space): a greedy \s*.
RECURSIVE SpaceEnd(_, _)
SpaceEnd(s, i) ==
  IF i <= Len(s) /\ IsSpace(Char(s, i)) THEN SpaceEnd(s, i + 1) ELSE i

\* String.prototype.trim.
RECURSIVE trimEnd(_)
trimEnd(s) ==
  IF Len(s) > 0 /\ IsSpace(Char(s, Len(s)))
    THEN trimEnd(SubSeq(s, 1, Len(s) - 1)) ELSE s

trim(s) == trimEnd(SubSeq(s, SpaceEnd(s, 1), Len(s)))

\* Whether w stands in s at position i, letter case ignored (the i flag).
StartsWithAt(s, i, w) ==
  /\ i >= 1
  /\ i + Len(w) - 1 <= Len(s)
  /\ toLowerCase(SubSeq(s, i, i + Len(w) - 1)) = toLowerCase(w)

\* String.prototype.includes.
includes(s, w) ==
  \E i \in 1 .. (Len(s) - Len(w) + 1) : SubSeq(s, i, i + Len(w) - 1) = w

(***************************************************************************)
(* Clause segmentation                                                     *)
(***************************************************************************)
\* The alternation (but|however|although|yet|while).
Conjunctions == <<"but", "however", "although", "yet", "while">>

\* The length of the alternative that matches at i, 0 when none does.  No
\* alternative is a prefix of another, so at most one matches.
ConjLenAt(s, i) ==
  LET hits == {k \in 1 .. Len(Conjunctions) : StartsWithAt(s, i, Conjunctions[k])}
  IN IF hits = {} THEN 0 ELSE Len(Conjunctions[CHOOSE k \in hits : TRUE])

\* /(\s+)(but|however|although|yet|while)(\s+)/gi tried at position i: the
\* position after the match, 0 when there is none.
MatchSpacedConj(s, i) ==
  IF i > Len(s) \/ ~IsSpace(Char(s, i)) THEN 0
  ELSE LET j == SpaceEnd(s, i)
           n == ConjLenAt(s, j)
       IN IF n > 0 /\ j + n <= Len(s) /\ IsSpace(Char(s, j + n))
            THEN SpaceEnd(s, j + n) ELSE 0

\* /([,;]\s+)(but|however|although|yet|while)(\s+)/gi tried at position i.
MatchCommaConj(s, i) ==
  IF i <= Len(s) /\ Char(s, i) \in {",", ";"} THEN MatchSpacedConj(s, i + 1) ELSE 0

\* String.prototype.replace with a global RegExp and the replacement " | ":
\* leftmost matches, the search resuming where the last match ended.
RECURSIVE replaceCommaConj(_, _)
replaceCommaConj(s, i) ==
  IF i > Len(s) THEN ""
  ELSE LET e == MatchCommaConj(s, i)
       IN IF e > 0 THEN " | " \o replaceCommaConj(s, e)
                   ELSE Char(s, i) \o replaceCommaConj(s, i + 1)

RECURSIVE replaceSpacedConj(_, _)
replaceSpacedConj(s, i) ==
  IF i > Len(s) THEN ""
  ELSE LET e == MatchSpacedConj(s, i)
       IN IF e > 0 THEN " | " \o replaceSpacedConj(s, e)
                   ELSE Char(s, i) \o replaceSpacedConj(s, i + 1)

\* The character class [|.!?] and a greedy run of it.
IsDelimiter(c) == c \in {"|", ".", "!", "?"}

RECURSIVE DelimiterEnd(_, _)
DelimiterEnd(s, i) ==
  IF i <= Len(s) /\ IsDelimiter(Char(s, i)) THEN DelimiterEnd(s, i + 1) ELSE i

\* String.prototype.split(/[|.!?]+/): the pieces between the runs, the empty
\* pieces at either end included.
RECURSIVE splitOnDelimiters(_, _, _)
splitOnDelimiters(s, i, piece) ==
  IF i > Len(s) THEN <<piece>>
  ELSE IF IsDelimiter(Char(s, i))
    THEN <<piece>> \o splitOnDelimiters(s, DelimiterEnd(s, i), "")
    ELSE splitOnDelimiters(s, i + 1, piece \o Char(s, i))

\* Array.prototype.map(trim).filter(length > 2)
RECURSIVE trimAndFilter(_)
trimAndFilter(pieces) ==
  IF pieces = <<>> THEN <<>>
  ELSE LET t == trim(Head(pieces))
       IN (IF Len(t) > 2 THEN <<t>> ELSE <<>>) \o trimAndFilter(Tail(pieces))

\* part_001: segmentTextIntoClauses.
segmentTextIntoClauses(text) ==
  LET processed == replaceSpacedConj(replaceCommaConj(text, 1), 1)
  IN trimAndFilter(splitOnDelimiters(processed, 1, ""))


\* The character class [.!?] of splitIntoSentences.
IsTerminator(c) == c \in {".", "!", "?"}

RECURSIVE TerminatorEnd(_, _)
TerminatorEnd(s, i) ==
  IF i <= Len(s) /\ IsTerminator(Char(s, i)) THEN TerminatorEnd(s, i + 1) ELSE i

RECURSIVE NonTerminatorEnd(_, _)
NonTerminatorEnd(s, i) ==
  IF i <= Len(s) /\ ~IsTerminator(Char(s, i)) THEN NonTerminatorEnd(s, i + 1) ELSE i

\* String.prototype.match(/[^.!?]+[.!?]+|[^.!?]+$/g): every sentence with the
\* terminators that close it, and the unterminated rest of the text.
RECURSIVE matchSentences(_, _)
matchSentences(s, i) ==
  IF i > Len(s) THEN <<>>
  ELSE IF IsTerminator(Char(s, i)) THEN matchSentences(s, i + 1)
  ELSE LET j == NonTerminatorEnd(s, i)
           e == TerminatorEnd(s, j)
       IN <<SubSeq(s, i, e - 1)>> \o matchSentences(s, e)

\* part_002 and part_003: splitIntoSentences (match(...) || [text]).
splitIntoSentences(text) ==
  LET found == matchSentences(text, 1)
  IN IF found = <<>> THEN <<text>> ELSE found

(***************************************************************************)
(* Aspect detection                                                        *)
(***************************************************************************)
\* The value null of a function that returns an object or null.
null == [null |-> TRUE]

\* \b at position i of s: between s[i-1] and s[i] exactly one is a \w.
WordBoundary(s, i) ==
  LET before == i >= 2 /\ i - 1 <= Len(s) /\ IsWordChar(Char(s, i - 1))
      after  == i >= 1 /\ i <= Len(s) /\ IsWordChar(Char(s, i))
  IN before # after

\* new RegExp(`\\b${keyword.toLowerCase()}\\b`).test(normalized), for a keyword
\* of letters, digits and blanks (no RegExp operator in it).
keywordRegexTest(keyword, normalized) ==
  LET k == toLowerCase(keyword)
  IN \E i \in 1 .. (Len(normalized) - Len(k) + 1) :
       /\ WordBoundary(normalized, i)
       /\ SubSeq(normalized, i, i + Len(k) - 1) = k
       /\ WordBoundary(normalized, i + Len(k))

\* The (aspect, keyword) pairs in the order of the two nested for loops.
RECURSIVE keywordPairs(_, _)
keywordPairs(name, keywords) ==
  IF keywords = <<>> THEN <<>>
  ELSE <<[aspect |-> name, trigger |-> Head(keywords)]>>
         \o keywordPairs(name, Tail(keywords))

\* A variant in which an aspect without a keyword stands with the empty
\* keyword.
RECURSIVE taxonomyPairs_blankForEmpty(_)
taxonomyPairs_blankForEmpty(taxonomy) ==
  IF taxonomy = <<>> THEN <<>>
  ELSE (IF Head(taxonomy).keywords = <<>>
          THEN <<[aspect |-> Head(taxonomy).name, trigger |-> ""]>>
          ELSE keywordPairs(Head(taxonomy).name, Head(taxonomy).keywords))
         \o taxonomyPairs_blankForEmpty(Tail(taxonomy))

RECURSIVE taxonomyPairs(_)
taxonomyPairs(taxonomy) ==
  IF taxonomy = <<>> THEN <<>>
  ELSE keywordPairs(Head(taxonomy).name, Head(taxonomy).keywords)
         \o taxonomyPairs(Tail(taxonomy))

\* The comparison that lets a later matching keyword replace bestMatch.
replacesBest(keyword, bestMatch) ==
  bestMatch = null \/ Len(keyword) > Len(bestMatch.trigger)

RECURSIVE scanPairs(_, _, _)
scanPairs(pairs, normalized, bestMatch) ==
  IF pairs = <<>> THEN bestMatch
  ELSE LET p == Head(pairs)
       IN scanPairs(Tail(pairs), normalized,
                    IF keywordRegexTest(p.trigger, normalized)
                       /\ replacesBest(p.trigger, bestMatch)
                      THEN p ELSE bestMatch)

\* part_001: detectAspect (longest matching keyword of the whole taxonomy).
detectAspect(textSegment, taxonomy) ==
  scanPairs(taxonomyPairs(taxonomy), toLowerCase(textSegment), null)

\* [...keywords].sort((a, b) => b.length - a.length): a stable sort.
RECURSIVE insertByLength(_, _)
insertByLength(sorted, k) ==
  IF sorted = <<>> THEN <<k>>
  ELSE IF Len(Head(sorted)) >= Len(k)
    THEN <<Head(sorted)>> \o insertByLength(Tail(sorted), k)
    ELSE <<k>> \o sorted

RECURSIVE sortByLengthDesc(_)
sortByLengthDesc(keywords) ==
  IF keywords = <<>> THEN <<>>
  ELSE insertByLength(sortByLengthDesc(SubSeq(keywords, 1, Len(keywords) - 1)),
                      keywords[Len(keywords)])

RECURSIVE firstRegexMatch(_, _)
firstRegexMatch(pairs, normalized) ==
  IF pairs = <<>> THEN null
  ELSE IF keywordRegexTest(Head(pairs).trigger, normalized) THEN Head(pairs)
  ELSE firstRegexMatch(Tail(pairs), normalized)

RECURSIVE sortedTaxonomyPairs(_)
sortedTaxonomyPairs(taxonomy) ==
  IF taxonomy = <<>> THEN <<>>
  ELSE keywordPairs(Head(taxonomy).name, sortByLengthDesc(Head(taxonomy).keywords))
         \o sortedTaxonomyPairs(Tail(taxonomy))

\* part_002: detectAspect (first aspect with a match, its longest keyword).
detectAspect_part_002(sentence, taxonomy) ==
  firstRegexMatch(sortedTaxonomyPairs(taxonomy), toLowerCase(sentence))

RECURSIVE firstIncludesMatch(_, _)
firstIncludesMatch(pairs, normalized) ==
  IF pairs = <<>> THEN null
  ELSE IF includes(normalized, toLowerCase(Head(pairs).trigger))
    THEN [aspect |-> Head(pairs).aspect]
  ELSE firstIncludesMatch(Tail(pairs), normalized)

\* part_003: detectAspect (substring containment, the aspect name only).
detectAspect_part_003(sentence, taxonomy) ==
  firstIncludesMatch(taxonomyPairs(taxonomy), toLowerCase(sentence))

(***************************************************************************)
(* Sentiment scoring                                                       *)
(***************************************************************************)
\* What Analyzer.polarity_scores (the VADER library, not part of the
\* repository) can do on a text: throw, or return a compound in -100 .. 100.
\* The compounds cover a clamped value, both labels and the neutral band.
VaderCompounds == {-92, -3, 40}

VaderOutcomes ==
  {[throws |-> TRUE, compound |-> 0]}
    \cup {[throws |-> FALSE, compound |-> c] : c \in VaderCompounds}

intensifiers ==
  <<"absolutely", "extremely", "perfect", "worst", "terrible", "amazing",
    "love", "hate", "best", "awful">>

\* part_001: calibrateSentiment.
calibrateSentiment(score, text) ==
  IF score = 0 THEN 0
  ELSE IF \E k \in 1 .. Len(intensifiers) :
            includes(toLowerCase(text), intensifiers[k])
    THEN score
  ELSE IF score > 85 THEN 85
  ELSE IF score < -85 THEN -85
  ELSE score

\* A variant with strict thresholds.
sentimentLabel_strict(score) ==
  IF score > 5 THEN "Positive"
  ELSE IF score < -5 THEN "Negative"
  ELSE "Neutral"

\* The thresholds of analyzeSentiment: >= 0.05 Positive, <= -0.05 Negative.
sentimentLabel(score) ==
  IF score >= 5 THEN "Positive"
  ELSE IF score <= -5 THEN "Negative"
  ELSE "Neutral"

\* part_001: analyzeSentiment (try { ... } catch { Neutral, 0 }).
analyzeSentiment(text, vader) ==
  IF vader.throws THEN [label |-> "Neutral", score |-> 0, threw |-> FALSE]
  ELSE LET score == calibrateSentiment(vader.compound, text)
       IN [label |-> sentimentLabel(score), score |-> score, threw |-> FALSE]

\* part_002: analyzeSentiment (the raw compound, the same catch).
analyzeSentiment_part_002(text, vader) ==
  IF vader.throws THEN [label |-> "Neutral", score |-> 0, threw |-> FALSE]
  ELSE [label |-> sentimentLabel(vader.compound), score |-> vader.compound,
        threw |-> FALSE]

\* part_003: analyzeSentiment (no try: what polarity_scores throws leaves the
\* function; threw marks that it returned nothing).
analyzeSentiment_part_003(text, vader) ==
  IF vader.throws THEN [label |-> "Neutral", score |-> 0, threw |-> TRUE]
  ELSE [label |-> sentimentLabel(vader.compound), score |-> vader.compound,
        threw |-> FALSE]

(***************************************************************************)
(* extractTopFreqWords: tokens                                             *)
(***************************************************************************)
\* part_001: STOP_WORDS.
STOP_WORDS ==
  {
    "i", "me", "my", "myself", "we", "our", "ours", "ourselves", "you",
    "your", "yours", "yourself", "yourselves", "he", "him", "his", "himself",
    "she", "her", "hers", "herself", "it", "its", "itself", "they", "them",
    "their", "theirs", "themselves", "what", "which", "who", "whom", "this",
    "that", "these", "those", "am", "is", "are", "was", "were", "be", "been",
    "being", "have", "has", "had", "having", "do", "does", "did", "doing",
    "a", "an", "the", "and", "but", "if", "or", "because", "as", "until",
    "while", "of", "at", "by", "for", "with", "about", "against", "between",
    "into", "through", "during", "before", "after", "above", "below", "to",
    "from", "up", "down", "in", "out", "on", "off", "over", "under", "again",
    "further", "then", "once", "here", "there", "when", "where", "why", "how",
    "all", "any", "both", "each", "few", "more", "most", "other", "some",
    "such", "no", "nor", "not", "only", "own", "same", "so", "than", "too",
    "very", "s", "t", "can", "will", "just", "don", "should", "now" }

\* part_002: STOP_WORDS.
STOP_WORDS_part_002 ==
  {
    "i", "me", "my", "myself", "we", "our", "ours", "ourselves", "you",
    "your", "yours", "yourself", "yourselves", "he", "him", "his", "himself",
    "she", "her", "hers", "herself", "it", "its", "itself", "they", "them",
    "their", "theirs", "themselves", "what", "which", "who", "whom", "this",
    "that", "these", "those", "am", "is", "are", "was", "were", "be", "been",
    "being", "have", "has", "had", "having", "do", "does", "did", "doing",
    "a", "an", "the", "and", "but", "if", "or", "because", "as", "until",
    "while", "of", "at", "by", "for", "with", "about", "against", "between",
    "into", "through", "during", "before", "after", "above", "below", "to",
    "from", "up", "down", "in", "out", "on", "off", "over", "under", "again",
    "further", "then", "once", "here", "there", "when", "where", "why", "how",
    "all", "any", "both", "each", "few", "more", "most", "other", "some",
    "such", "no", "nor", "not", "only", "own", "same", "so", "than", "too",
    "very", "s", "t", "can", "will", "just", "don", "dont", "should", "now",
    "could", "would", "get", "got", "getting", "buy", "buying", "bought",
    "make", "made", "makes", "go", "going", "went", "use", "used", "using",
    "try", "tried", "trying", "know", "think", "thought", "say", "said",
    "look", "looking", "want", "wanted", "need", "needed", "recommend",
    "purchased", "ordered", "received", "arrived", "stay", "stays", "stayed",
    "become", "becomes", "becoming", "seem", "seems", "seemed", "feel",
    "feels", "felt", "keep", "keeps", "kept", "turn", "turns", "turned",
    "good", "bad", "great", "terrible", "awful", "amazing", "love", "hate",
    "liked", "disliked", "best", "worst", "better", "worse", "nice", "fine",
    "ok", "okay", "excellent", "poor", "perfect", "definitely", "absolutely",
    "honest", "honestly", "worth", "disappointed", "impressive", "however",
    "although", "though", "similarly", "finally", "actually", "basically",
    "literally", "really", "probably", "maybe", "perhaps", "instead",
    "anyway", "meanwhile", "therefore", "thus", "hence", "much", "many",
    "lot", "lots", "bit", "little", "whole", "entire", "another", "every",
    "everything", "product", "item", "review", "reviews", "thing", "things",
    "stuff", "way", "amazon", "star", "stars", "day", "days", "time", "times",
    "list" }

endsWith(w, suffix) ==
  /\ Len(w) >= Len(suffix)
  /\ SubSeq(w, Len(w) - Len(suffix) + 1, Len(w)) = suffix

\* w.slice(0, -n).
dropLast(w, n) == SubSeq(w, 1, Len(w) - n)

\* part_001: singularize.
singularize(word) ==
  IF Len(word) <= 3 THEN word
  ELSE IF endsWith(word, "ies") /\ Len(word) > 4 THEN dropLast(word, 3) \o "y"
  ELSE IF endsWith(word, "s") /\ ~endsWith(word, "ss") /\ ~endsWith(word, "us")
    THEN dropLast(word, 1)
  ELSE word

\* part_002: stemmer.
stemmer(word) ==
  LET w == toLowerCase(word)
  IN IF Len(w) < 3 THEN w
     ELSE IF endsWith(w, "ies") /\ Len(w) > 4 THEN dropLast(w, 3) \o "y"
     ELSE IF endsWith(w, "es") /\ ~endsWith(w, "aes") THEN dropLast(w, 2)
     ELSE IF endsWith(w, "s") /\ ~endsWith(w, "ss") THEN dropLast(w, 1)
     ELSE IF endsWith(w, "ing") /\ Len(w) > 5 THEN dropLast(w, 3)
     ELSE IF endsWith(w, "ed") /\ Len(w) > 4 THEN dropLast(w, 2)
     ELSE IF endsWith(w, "ly") /\ Len(w) > 4 THEN dropLast(w, 2)
     ELSE w

IsLowerAlnum(c) ==
  c \in {"a","b","c","d","e","f","g","h","i","j","k","l","m","n","o","p","q",
         "r","s","t","u","v","w","x","y","z","0","1","2","3","4","5","6","7",
         "8","9"}

\* part_001: review.text.toLowerCase().replace(/[^a-z0-9\s]/g, ' ').
RECURSIVE cleanText(_)
cleanText(text) ==
  IF Len(text) = 0 THEN ""
  ELSE LET c == LowerChar(Char(text, 1))
       IN (IF IsLowerAlnum(c) \/ IsSpace(c) THEN c ELSE " ")
            \o cleanText(Tail(text))

\* Whether 's or 't stands at k with a word boundary after it (/'s\b/).
ApostropheAt(s, k, letter) ==
  /\ k + 1 <= Len(s)
  /\ Char(s, k) = "'"
  /\ Char(s, k + 1) = letter
  /\ (k + 2 > Len(s) \/ ~IsWordChar(Char(s, k + 2)))

\* part_002: .replace(/'s\b/g, '').replace(/'t\b/g, 't').
RECURSIVE dropPossessive(_, _)
dropPossessive(s, k) ==
  IF k > Len(s) THEN ""
  ELSE IF ApostropheAt(s, k, "s") THEN dropPossessive(s, k + 2)
  ELSE IF ApostropheAt(s, k, "t") THEN "t" \o dropPossessive(s, k + 2)
  ELSE Char(s, k) \o dropPossessive(s, k + 1)

\* part_002: .replace(/[^\w\s]/g, ' ').
RECURSIVE dropPunctuation(_)
dropPunctuation(s) ==
  IF Len(s) = 0 THEN ""
  ELSE (IF IsWordChar(Char(s, 1)) \/ IsSpace(Char(s, 1)) THEN Char(s, 1) ELSE " ")
         \o dropPunctuation(Tail(s))

cleanText_part_002(text) ==
  dropPunctuation(dropPossessive(toLowerCase(text), 1))

\* cleanText.split(/\s+/).filter(w => w.length > 2): the pieces between runs
\* of white space that are longer than two characters.
RECURSIVE longWords(_, _, _)
longWords(s, k, piece) ==
  IF k > Len(s) \/ IsSpace(Char(s, k))
    THEN (IF Len(piece) > 2 THEN <<piece>> ELSE <<>>)
           \o (IF k > Len(s) THEN <<>> ELSE longWords(s, k + 1, ""))
    ELSE longWords(s, k + 1, piece \o Char(s, k))

\* part_001: tokens = rawTokens.map(singularize).
tokensOf(text) ==
  LET rawTokens == longWords(cleanText(text), 1, "")
  IN [k \in 1 .. Len(rawTokens) |-> singularize(rawTokens[k])]

\* part_002: .filter(w => !STOP_WORDS.has(w)).
RECURSIVE dropStopWords(_)
dropStopWords(words) ==
  IF words = <<>> THEN <<>>
  ELSE (IF Head(words) \in STOP_WORDS_part_002 THEN <<>> ELSE <<Head(words)>>)
         \o dropStopWords(Tail(words))

tokensOf_part_002(text) ==
  dropStopWords(longWords(cleanText_part_002(text), 1, ""))

(***************************************************************************)
(* extractTopFreqWords: counts, scores, ranking                            *)
(***************************************************************************)
\* Math.log2 on the integers 1 .. 64, in ten-thousandths (scores and
\* confidences are kept in ten-thousandths).
log2Table ==
  <<
     0, 10000, 15850, 20000, 23219, 25850, 28074, 30000, 31699, 33219,
     34594, 35850, 37004, 38074, 39069, 40000, 40875, 41699, 42479, 43219,
     43923, 44594, 45236, 45850, 46439, 47004, 47549, 48074, 48580, 49069,
     49542, 50000, 50444, 50875, 51293, 51699, 52095, 52479, 52854, 53219,
     53576, 53923, 54263, 54594, 54919, 55236, 55546, 55850, 56147, 56439,
     56724, 57004, 57279, 57549, 57814, 58074, 58329, 58580, 58826, 59069,
     59307, 59542, 59773, 60000 >>

Math_log2(x) == log2Table[x]

\* Words for which isSentimentWord holds: entries of the VADER lexicon with
\* |compound| > 0.1 (any other word, and a throwing analyzer, gives false).
SentimentWords == {"great", "good", "love"}

isSentimentWord(w) == w \in SentimentWords

\* The tokens of the whole corpus in order, each with its review's id.
RECURSIVE tokenStream(_)
tokenStream(revs) ==
  IF revs = <<>> THEN <<>>
  ELSE LET t == tokensOf(Head(revs).text)
       IN [k \in 1 .. Len(t) |-> [word |-> t[k], id |-> Head(revs).id]]
            \o tokenStream(Tail(revs))

\* part_001: the bigrams the for loop counts in one review's tokens.
RECURSIVE bigramsOf(_)
bigramsOf(tokens) ==
  IF Len(tokens) < 2 THEN <<>>
  ELSE (IF tokens[1] \in STOP_WORDS \/ tokens[2] \in STOP_WORDS THEN <<>>
        ELSE <<[w1 |-> tokens[1], w2 |-> tokens[2]]>>)
         \o bigramsOf(Tail(tokens))

RECURSIVE pairStream(_)
pairStream(revs) ==
  IF revs = <<>> THEN <<>>
  ELSE bigramsOf(tokensOf(Head(revs).text)) \o pairStream(Tail(revs))

\* The keys of a Map in insertion order: the distinct elements of the
\* stream of set() calls, in the order of their first occurrence.
RECURSIVE keysInOrder(_, _)
keysInOrder(stream, seen) ==
  IF stream = <<>> THEN <<>>
  ELSE IF Head(stream) \in seen THEN keysInOrder(Tail(stream), seen)
  ELSE <<Head(stream)>> \o keysInOrder(Tail(stream), seen \cup {Head(stream)})

\* The count a Map of counters holds for a key.
countOf(stream, key) == Cardinality({k \in 1 .. Len(stream) : stream[k] = key})

\* A variant with the floor at 2 occurrences.
belowNoiseFloor_two(count) == count < 2

\* if (count < 3) return: the noise floor of bigrams and unigrams.
belowNoiseFloor(count) == count < 3

\* pmi > 2 for p_bigram / (p_w1 * p_w2), decided on the integers.
pmiAboveThreshold(count, totalPairs, c1, c2, totalWords) ==
  count * totalWords * totalWords > 4 * totalPairs * c1 * c2

\* Math.log2(p_bigram / (p_w1 * p_w2)).
pmiOf(count, totalPairs, c1, c2, totalWords) ==
  Math_log2(count) + 2 * Math_log2(totalWords)
    - Math_log2(totalPairs) - Math_log2(c1) - Math_log2(c2)

\* part_001: pairCounts.forEach(...), the scored bigrams in Map order.
RECURSIVE scoreBigrams(_, _, _)
scoreBigrams(keys, pairs, words) ==
  IF keys = <<>> THEN <<>>
  ELSE LET b == Head(keys)
           count == countOf(pairs, b)
           c1 == countOf(words, b.w1)
           c2 == countOf(words, b.w2)
           keep == /\ ~belowNoiseFloor(count)
                   /\ pmiAboveThreshold(count, Len(pairs), c1, c2, Len(words))
       IN (IF keep
             THEN <<[word |-> b.w1 \o " " \o b.w2,
                     score |-> count * pmiOf(count, Len(pairs), c1, c2, Len(words)),
                     type |-> "phrase"]>>
             ELSE <<>>)
            \o scoreBigrams(Tail(keys), pairs, words)

\* part_001: wordCounts.forEach(...), the scored unigrams in Map order.
RECURSIVE scoreUnigrams(_, _, _)
scoreUnigrams(keys, words, tokens) ==
  IF keys = <<>> THEN <<>>
  ELSE LET w == Head(keys)
           count == countOf(words, w)
           df == Cardinality({tokens[k].id : k \in {j \in 1 .. Len(tokens) :
                                                     tokens[j].word = w}})
           keep == /\ w \notin STOP_WORDS
                   /\ ~belowNoiseFloor(count)
                   /\ ~isSentimentWord(w)
       IN (IF keep
             THEN <<[word |-> w, score |-> count * Math_log2(df + 1),
                     type |-> "word"]>>
             ELSE <<>>)
            \o scoreUnigrams(Tail(keys), words, tokens)

\* .sort((a, b) => b.score - a.score): stable, descending.
RECURSIVE insertByScore(_, _)
insertByScore(sorted, e) ==
  IF sorted = <<>> THEN <<e>>
  ELSE IF Head(sorted).score >= e.score
    THEN <<Head(sorted)>> \o insertByScore(Tail(sorted), e)
    ELSE <<e>> \o sorted

RECURSIVE sortByScoreDesc(_)
sortByScoreDesc(entries) ==
  IF entries = <<>> THEN <<>>
  ELSE insertByScore(sortByScoreDesc(SubSeq(entries, 1, Len(entries) - 1)),
                     entries[Len(entries)])

\* A variant that returns every entry.
sliceTo_all(entries, limit) == entries

\* .slice(0, limit) for limit >= 0.
sliceTo(entries, limit) ==
  SubSeq(entries, 1, IF limit < Len(entries) THEN limit ELSE Len(entries))

\* Math.round of a positive score in ten-thousandths.
roundScore(score) == (score + 5000) \div 10000

\* part_001: extractTopFreqWords.
extractTopFreqWords(revs, limit) ==
  LET result ==
        {sliceTo(sortByScoreDesc(
                   scoreBigrams(keysInOrder(pairs, {}), pairs, words)
                     \o scoreUnigrams(keysInOrder(words, {}), words, tokens)),
                 limit) :
           <<tokens, words, pairs>> \in
             {<<t, [k \in 1 .. Len(t) |-> t[k].word], pairStream(revs)>> :
                t \in {tokenStream(revs)}}}
      top == CHOOSE r \in result : TRUE
  IN [k \in 1 .. Len(top) |->
        [word |-> top[k].word, count |-> roundScore(top[k].score),
         score |-> top[k].score]]

\* Array.prototype.sort((a, b) => b.count - a.count): stable, descending.
RECURSIVE insertByCount(_, _)
insertByCount(sorted, e) ==
  IF sorted = <<>> THEN <<e>>
  ELSE IF Head(sorted).count >= e.count
    THEN <<Head(sorted)>> \o insertByCount(Tail(sorted), e)
    ELSE <<e>> \o sorted

\* A variant that leaves the entries in the order of the Map.
sortByCountDesc_unsorted(entries) == entries

RECURSIVE sortByCountDesc(_)
sortByCountDesc(entries) ==
  IF entries = <<>> THEN <<>>
  ELSE insertByCount(sortByCountDesc(SubSeq(entries, 1, Len(entries) - 1)),
                     entries[Len(entries)])

\* part_002: what one review adds to phraseCounts: its tokens, then its
\* adjacent pairs.
RECURSIVE adjacentPairs(_)
adjacentPairs(tokens) ==
  IF Len(tokens) < 2 THEN <<>>
  ELSE <<tokens[1] \o " " \o tokens[2]>> \o adjacentPairs(Tail(tokens))

RECURSIVE phraseStream(_)
phraseStream(revs) ==
  IF revs = <<>> THEN <<>>
  ELSE LET t == tokensOf_part_002(Head(revs).text)
       IN t \o adjacentPairs(t) \o phraseStream(Tail(revs))

\* part_002: .filter(([_, count]) => count > 2), in Map order.
RECURSIVE aboveNoiseFloor(_, _)
aboveNoiseFloor(keys, phrases) ==
  IF keys = <<>> THEN <<>>
  ELSE (IF countOf(phrases, Head(keys)) > 2
          THEN <<[word |-> Head(keys), count |-> countOf(phrases, Head(keys))]>>
          ELSE <<>>)
         \o aboveNoiseFloor(Tail(keys), phrases)

\* part_002: extractTopFreqWords (WordStats with word and count only).
extractTopFreqWords_part_002(revs, limit) ==
  LET result ==
        {sliceTo(sortByCountDesc(aboveNoiseFloor(keysInOrder(phrases, {}), phrases)),
                 limit) :
           phrases \in {phraseStream(revs)}}
  IN CHOOSE r \in result : TRUE

(***************************************************************************)
(* State                                                                   *)
(***************************************************************************)
VARIABLES
  rev,              \* which revision of services/localAnalysis the build holds
  pc,               \* where the run of App.handleAnalyze stands
  response,         \* what the Gemini call of this run answered
  reviews,          \* reviewObjects: <<[id, text]>>
  taxonomy,         \* <<[name, keywords]>> as discoverTaxonomy returned it
  i,                \* the index of the for loop of performLocalAnalysis (from 0)
  review,           \* the loop's review (the last one processed)
  segmentsList,     \* its clauses / sentences
  matchedSegments,  \* its AspectSegments
  vaderCalls,       \* what polarity_scores did on its matched clauses, in order
  analyzedReviews,  \* AnalyzedReview[] built so far
  aspectAggregates, \* Map name -> aggregate (aspectStatsMap in part_002/003)
  progressCalls,    \* the arguments of the onProgress calls of this run, in order
  sinceYield,       \* reviews processed since the last await (or the start)
  localResult,      \* what performLocalAnalysis resolved to
  isAnalyzing, progress, result, error,   \* the React state of App
  inputText,        \* the React state of InputSection: the textarea's content
  submitted,        \* the content Analyze was last clicked on (<<>>: never)
  extractCall,      \* the arguments of the last direct call of extractTopFreqWords
  topWordStats,     \* what that call returned
  confidenceCall,   \* a stand-alone confidence computation: arguments and value
  stemCall,         \* a stand-alone singularize / stemmer call: word and value
  integrityCall,    \* a stand-alone checkDatasetIntegrity call: arguments, warnings
  sentimentCall     \* a stand-alone analyzeSentiment call and the segment built

localVars ==
  <<taxonomy, i, review, segmentsList, matchedSegments, vaderCalls,
    analyzedReviews, aspectAggregates, progressCalls, sinceYield, localResult>>

appVars == <<isAnalyzing, progress, result, error>>

uiVars == <<inputText, submitted>>

callVars ==
  <<extractCall, topWordStats, confidenceCall, stemCall, integrityCall,
    sentimentCall>>

vars == <<rev, pc, response, reviews, localVars, appVars, uiVars, callVars>>

(***************************************************************************)
(* Inputs                                                                  *)
(***************************************************************************)
\* The longest corpus of freely chosen review lines.
MaxReviews == 2

\* Review lines: the spec's Scenario A, a word that only contains a keyword,
\* upper case and a comma before the conjunction, a line too short to give a
\* clause, a conjunction followed by a comma after an intensifier.
Texts ==
  { "Battery life is great but the box was crushed.",
    "I barely noticed",
    "The CUSTOMER SERVICE was slow, however the bar is tasty!",
    "ok",
    "Perfect, however, the box broke" }

\* A line no keyword of any taxonomy below occurs in, for the long corpus.
FillerText == "Fine overall"

\* The batch size of the scan (const BATCH_SIZE = 500).
BATCH_SIZE == 500

\* A corpus size that reaches the second and the third await of the scan.
LongTotals == {2 * BATCH_SIZE + 1}

Corpora ==
  UNION {[1 .. n -> Texts] : n \in 0 .. MaxReviews}
    \cup {[k \in 1 .. n |-> FillerText] : n \in LongTotals}

\* Taxonomies the collaborator may answer with: Scenario A; Scenario E with a
\* second aspect and an aspect without a keyword between the two; a general
\* aspect listed before the specific one, and two keywords of equal length
\* ("was", "box") in different aspects; no aspect.
Taxonomies ==
  { << [name |-> "Battery", keywords |-> <<"battery life">>],
       [name |-> "Packaging", keywords |-> <<"box">>] >>,
    << [name |-> "Support", keywords |-> <<"service", "customer service">>],
       [name |-> "Misc", keywords |-> << >>],
       [name |-> "Snack", keywords |-> <<"bar">>] >>,
    << [name |-> "General", keywords |-> <<"service", "was">>],
       [name |-> "Packaging", keywords |-> <<"box">>],
       [name |-> "Support", keywords |-> <<"customer service">>] >>,
    << >> }

\* What the Gemini call can do.
Responses ==
  {"no_api_key", "request_failed", "empty_text", "not_json",
   "json_without_aspects", "json_with_aspects"}

(***************************************************************************)
(* services/geminiService.ts                                               *)
(***************************************************************************)
\* discoverTaxonomy: the taxonomy it resolves to, or the error it throws.
discoverTaxonomy(resp, aspects) ==
  CASE resp = "no_api_key" ->
         [threw |-> TRUE, message |-> "API Key is missing", value |-> <<>>]
    [] resp = "request_failed" ->
         [threw |-> TRUE, message |-> "request failed", value |-> <<>>]
    [] resp = "empty_text" ->
         [threw |-> TRUE, message |-> "Empty response from Gemini", value |-> <<>>]
    [] resp = "not_json" ->
         [threw |-> TRUE, message |-> "Unexpected token", value |-> <<>>]
    [] resp = "json_without_aspects" ->
         [threw |-> FALSE, message |-> "", value |-> <<>>]
    [] resp = "json_with_aspects" ->
         [threw |-> FALSE, message |-> "", value |-> aspects]

(***************************************************************************)
(* performLocalAnalysis: the parts of one loop iteration                   *)
(***************************************************************************)
Clauses(r, text) ==
  IF r = "part_001" THEN segmentTextIntoClauses(text)
                    ELSE splitIntoSentences(text)

Detect(r, clause, tax) ==
  CASE r = "part_001" -> detectAspect(clause, tax)
    [] r = "part_002" -> detectAspect_part_002(clause, tax)
    [] r = "part_003" -> detectAspect_part_003(clause, tax)

Analyze(r, clause, vader) ==
  CASE r = "part_001" -> analyzeSentiment(clause, vader)
    [] r = "part_002" -> analyzeSentiment_part_002(clause, vader)
    [] r = "part_003" -> analyzeSentiment_part_003(clause, vader)

\* The clauses detectAspect finds an aspect for, each with its match (the
\* "if (match)" of the forEach).
RECURSIVE matchedClauses(_, _, _)
matchedClauses(r, clauses, tax) ==
  IF clauses = <<>> THEN <<>>
  ELSE LET m == Detect(r, Head(clauses), tax)
       IN (IF m # null THEN <<[text |-> Head(clauses), match |-> m]>> ELSE <<>>)
            \o matchedClauses(r, Tail(clauses), tax)

\* The AspectSegment pushed for a matched clause.
aspectSegment(mc, sentiment) ==
  CASE rev = "part_001" ->
         [segment_text |-> mc.text, aspect_category |-> mc.match.aspect,
          sentiment |-> sentiment.label, sentiment_score |-> sentiment.score,
          reasoning |-> "Keyword Match", trigger_word |-> mc.match.trigger]
    [] rev = "part_002" ->
         [segment_text |-> trim(mc.text), aspect_category |-> mc.match.aspect,
          sentiment |-> sentiment.label, sentiment_score |-> sentiment.score,
          reasoning |-> "Keyword Match", trigger_word |-> mc.match.trigger]
    [] rev = "part_003" ->
         [segment_text |-> trim(mc.text), aspect_category |-> mc.match.aspect,
          sentiment |-> sentiment.label, sentiment_score |-> sentiment.score,
          reasoning |-> "Keyword Match"]

\* The keys of the Map, and the keywords the last set() of a name left.
aspectNames(tax) == {tax[k].name : k \in 1 .. Len(tax)}

lastKeywords(tax, name) ==
  LET last == CHOOSE k \in 1 .. Len(tax) :
                /\ tax[k].name = name
                /\ \A j \in (k + 1) .. Len(tax) : tax[j].name # name
  IN tax[last].keywords

\* taxonomy.forEach(aspect => map.set(aspect.name, {...})).
initialAggregates(tax) ==
  IF rev = "part_001"
    THEN [n \in aspectNames(tax) |->
            [count |-> 0, reviewIds |-> {}, scoreSum |-> 0, posCount |-> 0,
             negCount |-> 0, neuCount |-> 0, keywords |-> lastKeywords(tax, n),
             uniqueTriggers |-> {}]]
    ELSE [n \in aspectNames(tax) |->
            [name |-> n, keywords |-> lastKeywords(tax, n), count |-> 0,
             positive |-> 0, negative |-> 0, neutral |-> 0]]

\* A variant of the update that counts a segment only where it counts its
\* polarity, so a Neutral segment is never counted.
addToAggregate_polarOnly(agg, reviewId, seg) ==
  [agg EXCEPT
     !.count = IF seg.sentiment \in {"Positive", "Negative"} THEN @ + 1 ELSE @,
     !.reviewIds = @ \cup {reviewId},
     !.scoreSum = @ + seg.sentiment_score,
     !.uniqueTriggers = @ \cup {seg.trigger_word},
     !.posCount = IF seg.sentiment = "Positive" THEN @ + 1 ELSE @,
     !.negCount = IF seg.sentiment = "Negative" THEN @ + 1 ELSE @]

\* A variant that tallies by the sign of the score, not by the label.
addToAggregate_bySign(agg, reviewId, seg) ==
  [agg EXCEPT
     !.count = @ + 1,
     !.reviewIds = @ \cup {reviewId},
     !.scoreSum = @ + seg.sentiment_score,
     !.uniqueTriggers = @ \cup {seg.trigger_word},
     !.posCount = IF seg.sentiment_score > 0 THEN @ + 1 ELSE @,
     !.negCount = IF seg.sentiment_score < 0 THEN @ + 1 ELSE @,
     !.neuCount = IF seg.sentiment_score = 0 THEN @ + 1 ELSE @]

\* part_001: the update of aspectAggregates for one pushed segment.
addToAggregate(agg, reviewId, seg) ==
  [agg EXCEPT
     !.count = @ + 1,
     !.reviewIds = @ \cup {reviewId},
     !.scoreSum = @ + seg.sentiment_score,
     !.uniqueTriggers = @ \cup {seg.trigger_word},
     !.posCount = IF seg.sentiment = "Positive" THEN @ + 1 ELSE @,
     !.negCount = IF seg.sentiment = "Negative" THEN @ + 1 ELSE @,
     !.neuCount = IF seg.sentiment \notin {"Positive", "Negative"} THEN @ + 1 ELSE @]

\* part_002, part_003: the update of aspectStatsMap for one pushed segment.
addToStats(stats, seg) ==
  [stats EXCEPT
     !.count = @ + 1,
     !.positive = IF seg.sentiment = "Positive" THEN @ + 1 ELSE @,
     !.negative = IF seg.sentiment = "Negative" THEN @ + 1 ELSE @,
     !.neutral = IF seg.sentiment \notin {"Positive", "Negative"} THEN @ + 1 ELSE @]

\* const agg = map.get(match.aspect); if (agg) { ... }, for every segment of
\* the review in order.
RECURSIVE aggregateSegments(_, _, _)
aggregateSegments(aggs, reviewId, segs) ==
  IF segs = <<>> THEN aggs
  ELSE LET seg == Head(segs)
           name == seg.aspect_category
           next == IF name \in DOMAIN aggs
                     THEN [aggs EXCEPT ![name] =
                             IF rev = "part_001"
                               THEN addToAggregate(@, reviewId, seg)
                               ELSE addToStats(@, seg)]
                     ELSE aggs
       IN aggregateSegments(next, reviewId, Tail(segs))

\* A variant that pushes the review whatever its segments.
keepReview_always(analyzed, r, segments) ==
  Append(analyzed, [review_id |-> r.id, original_text |-> r.text,
                    segments |-> segments])

\* A variant that puts the review at the front of the array (unshift).
keepReview_unshift(analyzed, r, segments) ==
  IF Len(segments) > 0
    THEN <<[review_id |-> r.id, original_text |-> r.text,
            segments |-> segments]>> \o analyzed
    ELSE analyzed

\* if (matchedSegments.length > 0) analyzedReviews.push({...}).
keepReview(analyzed, r, segments) ==
  IF Len(segments) > 0
    THEN Append(analyzed, [review_id |-> r.id, original_text |-> r.text,
                           segments |-> segments])
    ELSE analyzed

\* A variant that yields on every other batch boundary only.
shouldYield_everyOther(index) == index % (2 * BATCH_SIZE) = 0

\* if (i % BATCH_SIZE === 0): the iterations that report progress and await.
shouldYield(index) == index % BATCH_SIZE = 0

\* A variant that takes the percentage of a batch, not of the corpus.
progressPercent_ofBatch(index, total) ==
  (200 * index + BATCH_SIZE) \div (2 * BATCH_SIZE)

\* Math.round((i / total) * 100), for 0 <= i < total.
progressPercent(index, total) == (200 * index + total) \div (2 * total)

(***************************************************************************)
(* performLocalAnalysis: the final statistics                              *)
(***************************************************************************)
\* The keys of the Map in insertion order (a repeated name keeps its place).
RECURSIVE mapOrder(_, _)
mapOrder(tax, seen) ==
  IF tax = <<>> THEN <<>>
  ELSE IF Head(tax).name \in seen THEN mapOrder(Tail(tax), seen)
  ELSE <<Head(tax).name>> \o mapOrder(Tail(tax), seen \cup {Head(tax).name})

\* Math.min(1, x), in ten-thousandths.
atMostOne(x) == IF x > 10000 THEN 10000 ELSE x

\* A variant that takes the logarithm as it is, neither scaled by log2(50)
\* nor capped.
coverageScore_unscaled(reviewCount) == Math_log2(reviewCount + 1)

\* Math.min(1, Math.log2(agg.reviewIds.size + 1) / Math.log2(50)), in
\* ten-thousandths.
coverageScore(reviewCount) ==
  atMostOne((Math_log2(reviewCount + 1) * 10000) \div Math_log2(50))

\* Math.min(1, agg.uniqueTriggers.size / 3), in ten-thousandths.
diversityScore(triggers) == atMostOne((triggers * 10000) \div 3)

\* (coverageScore * 0.7) + (diversityScore * 0.3), in ten-thousandths.
blend(coverage, diversity) == (7 * coverage + 3 * diversity) \div 10

\* A variant that cuts the digits after the second decimal off.
toFixed2_truncate(x) == x \div 100

\* parseFloat(x.toFixed(2)): ten-thousandths to hundredths, half up.
toFixed2(x) == (x + 50) \div 100

\* The confidence field of an AspectStats entry, in hundredths.
confidence(reviewCount, triggers) ==
  toFixed2(blend(coverageScore(reviewCount), diversityScore(triggers)))

\* One AspectStats entry; net_sentiment is kept as the exact fraction of
\* hundredths, confidence in hundredths.
aspectStatsEntry(name, agg) ==
  IF rev = "part_001"
    THEN [name |-> name, keywords |-> agg.keywords, count |-> agg.count,
          reviewCount |-> Cardinality(agg.reviewIds),
          positive |-> agg.posCount, negative |-> agg.negCount,
          neutral |-> agg.neuCount,
          net_sentiment |-> IF agg.count > 0
                              THEN [num |-> agg.scoreSum, den |-> agg.count]
                              ELSE [num |-> 0, den |-> 1],
          confidence |-> confidence(Cardinality(agg.reviewIds),
                                    Cardinality(agg.uniqueTriggers))]
    ELSE [name |-> agg.name, keywords |-> agg.keywords, count |-> agg.count,
          positive |-> agg.positive, negative |-> agg.negative,
          neutral |-> agg.neutral,
          net_sentiment |-> IF agg.count > 0
                              THEN [num |-> 100 * (agg.positive - agg.negative),
                                    den |-> agg.count]
                              ELSE [num |-> 0, den |-> 1]]

aspectStats(tax, aggs) ==
  LET order == mapOrder(tax, {})
  IN sortByCountDesc([k \in 1 .. Len(order) |->
                        aspectStatsEntry(order[k], aggs[order[k]])])

(***************************************************************************)
(* The run: App.handleAnalyze -> discoverTaxonomy -> performLocalAnalysis  *)
(***************************************************************************)
InitRev(r) ==
  /\ rev = r
  /\ pc = "idle"
  /\ response = "none"
  /\ reviews = <<>>
  /\ taxonomy = <<>>
  /\ i = 0
  /\ review = null
  /\ segmentsList = <<>>
  /\ matchedSegments = <<>>
  /\ vaderCalls = <<>>
  /\ analyzedReviews = <<>>
  /\ aspectAggregates = <<>>
  /\ progressCalls = <<>>
  /\ sinceYield = 0
  /\ localResult = null
  /\ isAnalyzing = FALSE
  /\ progress = 0
  /\ result = null
  /\ error = null
  /\ inputText = ""
  /\ submitted = <<>>
  /\ extractCall = null
  /\ topWordStats = <<>>
  /\ confidenceCall = null
  /\ stemCall = null
  /\ integrityCall = null
  /\ sentimentCall = null

Init == InitRev("part_001")

\* A variant without setResult(null): the result of the run before stays.
StartAnalysis_keepsResult(lines) ==
  /\ reviews' = [k \in 1 .. Len(lines) |->
                   [id |-> "rev-" \o ToString(k), text |-> lines[k]]]
  /\ isAnalyzing' = TRUE
  /\ progress' = 0
  /\ error' = null
  /\ result' = result
  /\ response' = "none"
  /\ taxonomy' = <<>>
  /\ i' = 0
  /\ review' = null
  /\ segmentsList' = <<>>
  /\ matchedSegments' = <<>>
  /\ vaderCalls' = <<>>
  /\ analyzedReviews' = <<>>
  /\ aspectAggregates' = <<>>
  /\ progressCalls' = <<>>
  /\ sinceYield' = 0
  /\ localResult' = null
  /\ pc' = "discover"
  /\ UNCHANGED <<rev, callVars>>

\* handleAnalyze(lines) up to the call of discoverTaxonomy: the state is reset
\* and the lines become reviewObjects with the ids rev-1, rev-2, ...
StartAnalysis(lines) ==
  /\ reviews' = [k \in 1 .. Len(lines) |->
                   [id |-> "rev-" \o ToString(k), text |-> lines[k]]]
  /\ isAnalyzing' = TRUE
  /\ progress' = 0
  /\ error' = null
  /\ result' = null
  /\ response' = "none"
  /\ taxonomy' = <<>>
  /\ i' = 0
  /\ review' = null
  /\ segmentsList' = <<>>
  /\ matchedSegments' = <<>>
  /\ vaderCalls' = <<>>
  /\ analyzedReviews' = <<>>
  /\ aspectAggregates' = <<>>
  /\ progressCalls' = <<>>
  /\ sinceYield' = 0
  /\ localResult' = null
  /\ pc' = "discover"
  /\ UNCHANGED <<rev, callVars>>

\* App.handleAnalyze called with any array of lines.
HandleAnalyze ==
  /\ pc = "idle"
  /\ ~isAnalyzing
  /\ \E lines \in Corpora : StartAnalysis(lines)
  /\ UNCHANGED uiVars

\* What the user can have in the textarea: nothing, white space only, lines
\* with blank lines between them, one line.
InputTexts ==
  { "", "  ", " \n\t\n ",
    "ok\n\nI barely noticed\n",
    "Battery life is great but the box was crushed.",
    "Battery life is great but the box was crushed.\n \nThe box broke" }

\* inputText.split(/\n+/): the pieces between runs of line feeds.
RECURSIVE splitLines(_, _, _)
splitLines(s, k, piece) ==
  IF k > Len(s) THEN <<piece>>
  ELSE IF Char(s, k) = "\n"
    THEN <<piece>> \o splitLines(s, k + 1, "")
    ELSE splitLines(s, k + 1, piece \o Char(s, k))

\* .filter(line => line.trim().length > 0); it also drops the empty pieces
\* that stand for the line feeds of one run in splitLines.
RECURSIVE nonBlank(_)
nonBlank(lines) ==
  IF lines = <<>> THEN <<>>
  ELSE (IF Len(trim(Head(lines))) > 0 THEN <<Head(lines)>> ELSE <<>>)
         \o nonBlank(Tail(lines))

\* onChange of the textarea, which is disabled while a run is on.
SetInputText ==
  /\ pc = "idle"
  /\ ~isAnalyzing
  /\ \E text \in InputTexts \ {inputText} : inputText' = text
  /\ UNCHANGED <<rev, pc, response, reviews, localVars, appVars, submitted,
                 callVars>>

\* InputSection.handleAnalyze (the handler of the button, which is disabled
\* while a run is on): nothing happens on a
\* content that trims to nothing, otherwise App.handleAnalyze gets the
\* non-blank lines.
InputHandleAnalyze ==
  /\ pc = "idle"
  /\ ~isAnalyzing
  /\ submitted' = <<inputText>>
  /\ IF trim(inputText) = ""
       THEN UNCHANGED <<rev, pc, response, reviews, localVars, appVars,
                        callVars>>
       ELSE StartAnalysis(nonBlank(splitLines(inputText, 1, "")))
  /\ UNCHANGED inputText

\* discoverTaxonomy throws: the catch of handleAnalyze sets the error, the
\* finally block ends the run.
DiscoveryFails ==
  /\ pc = "discover"
  /\ \E resp \in Responses :
       LET d == discoverTaxonomy(resp, <<>>)
       IN /\ d.threw
          /\ response' = resp
          /\ error' = [message |-> d.message]
  /\ isAnalyzing' = FALSE
  /\ progress' = 0
  /\ pc' = "idle"
  /\ UNCHANGED <<rev, reviews, localVars, result>>
  /\ UNCHANGED <<uiVars, callVars>>

\* discoverTaxonomy resolves: performLocalAnalysis starts with the taxonomy
\* it returned and fills the Map.
DiscoveryReturns ==
  /\ pc = "discover"
  /\ \E resp \in Responses, aspects \in Taxonomies :
       LET d == discoverTaxonomy(resp, aspects)
       IN /\ ~d.threw
          /\ resp = "json_with_aspects" \/ aspects = <<>>
          /\ response' = resp
          /\ taxonomy' = d.value
          /\ aspectAggregates' = initialAggregates(d.value)
  /\ i' = 0
  /\ pc' = "scan"
  /\ UNCHANGED <<rev, reviews, review, segmentsList, matchedSegments, vaderCalls,
                 analyzedReviews, progressCalls, sinceYield, localResult, appVars>>
  /\ UNCHANGED <<uiVars, callVars>>

\* One iteration of the for loop whose sentiment calls all return: the
\* review's clauses are matched, scored and aggregated, the review is kept
\* when a segment matched, and every BATCH_SIZE-th iteration reports
\* progress and awaits.  (A local constant is bound by \E over a singleton.)
ProcessReview ==
  /\ pc = "scan"
  /\ i < Len(reviews)
  /\ \E r \in {reviews[i + 1]} :
     \E clauses \in {Clauses(rev, r.text)} :
     \E matched \in {matchedClauses(rev, clauses, taxonomy)} :
     \E vader \in [1 .. Len(matched) -> VaderOutcomes] :
     \E sentiments \in {[k \in 1 .. Len(matched) |->
                           Analyze(rev, matched[k].text, vader[k])]} :
     \E segments \in {[k \in 1 .. Len(matched) |->
                         aspectSegment(matched[k], sentiments[k])]} :
       /\ \A k \in 1 .. Len(matched) : ~sentiments[k].threw
       /\ review' = r
       /\ segmentsList' = clauses
       /\ matchedSegments' = segments
       /\ vaderCalls' = vader
       /\ aspectAggregates' = aggregateSegments(aspectAggregates, r.id, segments)
       /\ analyzedReviews' = keepReview(analyzedReviews, r, segments)
  /\ sinceYield' = sinceYield + 1
  /\ IF shouldYield(i)
       THEN /\ progressCalls' =
                 Append(progressCalls, progressPercent(i, Len(reviews)))
            /\ progress' = progressPercent(i, Len(reviews))
            /\ pc' = "yield"
            /\ i' = i
       ELSE /\ pc' = "scan"
            /\ i' = i + 1
            /\ UNCHANGED <<progressCalls, progress>>
  /\ UNCHANGED <<rev, response, reviews, taxonomy, localResult,
                 isAnalyzing, result, error>>
  /\ UNCHANGED <<uiVars, callVars>>

\* An iteration in which a sentiment call throws out of analyzeSentiment
\* (part_003 has no try around polarity_scores): the segments before it are
\* aggregated, performLocalAnalysis rejects, handleAnalyze catches.
LocalAnalysisThrows ==
  /\ pc = "scan"
  /\ i < Len(reviews)
  /\ \E r \in {reviews[i + 1]} :
     \E clauses \in {Clauses(rev, r.text)} :
     \E matched \in {matchedClauses(rev, clauses, taxonomy)} :
     \E n \in 1 .. Len(matched) :
     \E vader \in [1 .. n -> VaderOutcomes] :
     \E sentiments \in {[k \in 1 .. n |->
                           Analyze(rev, matched[k].text, vader[k])]} :
     \E segments \in {[k \in 1 .. (n - 1) |->
                         aspectSegment(matched[k], sentiments[k])]} :
       /\ sentiments[n].threw
       /\ \A k \in 1 .. (n - 1) : ~sentiments[k].threw
       /\ review' = r
       /\ segmentsList' = clauses
       /\ matchedSegments' = segments
       /\ vaderCalls' = vader
       /\ aspectAggregates' = aggregateSegments(aspectAggregates, r.id, segments)
  /\ error' = [message |-> "polarity_scores failed"]
  /\ isAnalyzing' = FALSE
  /\ progress' = 0
  /\ pc' = "idle"
  /\ UNCHANGED <<rev, response, reviews, taxonomy, i, analyzedReviews,
                 progressCalls, sinceYield, localResult, result>>
  /\ UNCHANGED <<uiVars, callVars>>

\* The host runs the timer callback: the loop goes on with the next review.
Resume ==
  /\ pc = "yield"
  /\ pc' = "scan"
  /\ i' = i + 1
  /\ sinceYield' = 0
  /\ UNCHANGED <<rev, response, reviews, taxonomy, review, segmentsList,
                 matchedSegments, vaderCalls, analyzedReviews, aspectAggregates,
                 progressCalls, localResult, appVars>>
  /\ UNCHANGED <<uiVars, callVars>>

\* After the loop: the statistics, onProgress(100), the returned object.
FinishLocalAnalysis ==
  /\ pc = "scan"
  /\ i = Len(reviews)
  /\ localResult' = [reviews |-> analyzedReviews,
                     stats |-> aspectStats(taxonomy, aspectAggregates)]
  /\ progressCalls' = Append(progressCalls, 100)
  /\ progress' = 100
  /\ pc' = "returned"
  /\ UNCHANGED <<rev, response, reviews, taxonomy, i, review, segmentsList,
                 matchedSegments, vaderCalls, analyzedReviews, aspectAggregates,
                 sinceYield, isAnalyzing, result, error>>
  /\ UNCHANGED <<uiVars, callVars>>

\* handleAnalyze after the await: setResult, then the finally block.
ShowResult ==
  /\ pc = "returned"
  /\ result' = [reviews |-> localResult.reviews, aspects |-> localResult.stats,
                taxonomySource |-> "Gemini-ZeroShot",
                processedCount |-> Len(reviews)]
  /\ isAnalyzing' = FALSE
  /\ progress' = 0
  /\ pc' = "idle"
  /\ UNCHANGED <<rev, response, reviews, localVars, error>>
  /\ UNCHANGED <<uiVars, callVars>>

Next ==
  \/ HandleAnalyze
  \/ DiscoveryFails
  \/ DiscoveryReturns
  \/ ProcessReview
  \/ Resume
  \/ FinishLocalAnalysis
  \/ ShowResult

\* The build that holds part_001 (the revision with clause segmentation,
\* calibration and confidence).
Spec == Init /\ [][Next]_vars

\* The same build driven through InputSection: the textarea and the button.
NextInput ==
  \/ SetInputText
  \/ InputHandleAnalyze
  \/ DiscoveryFails
  \/ DiscoveryReturns
  \/ ProcessReview
  \/ Resume
  \/ FinishLocalAnalysis
  \/ ShowResult

SpecInput == Init /\ [][NextInput]_vars

\* What one iteration of the for loop does to the position of the run: the
\* control flow of ProcessReview without the data it computes.
IterationAdvances ==
  /\ pc = "scan"
  /\ i < Len(reviews)
  /\ IF shouldYield(i) THEN pc' = "yield" /\ i' = i
                       ELSE pc' = "scan" /\ i' = i + 1

\* The build driven through InputSection, with a host that does not leave a
\* started run waiting for ever: the promise of the Gemini call settles, the
\* synchronous code between two awaits runs to its end, and the host resumes
\* the scan after every await.  (The fairness of the loop iteration is
\* stated on the position <<pc, i>>, which every ProcessReview step changes.)
SpecInputFair ==
  /\ SpecInput
  /\ WF_vars(DiscoveryFails \/ DiscoveryReturns)
  /\ WF_<<pc, i>>(IterationAdvances)
  /\ WF_vars(Resume)
  /\ WF_vars(FinishLocalAnalysis)
  /\ WF_vars(ShowResult)

\* How many reviews a corpus given to extractTopFreqWords holds at most.
MaxExtractReviews == 3

\* Review lines for extractTopFreqWords: a phrase that recurs over reviews, a
\* phrase repeated inside one review, stop words only, a sentiment word, a
\* plural and a possessive, a word first seen before a more frequent one, a
\* short word between two words of a phrase.
ExtractTexts ==
  { "Battery life rocks",
    "Battery of life rocks",
    "box battery battery",
    "battery life battery life battery life",
    "this this this",
    "The box is great",
    "Love the battery's boxes" }

ExtractCorpora == UNION {[1 .. n -> ExtractTexts] : n \in 0 .. MaxExtractReviews}

ExtractLimits == {0, 1, 2, 100}

\* extractTopFreqWords called on its own, once, in the revision the build
\* holds.
CallExtract ==
  /\ pc = "idle"
  /\ extractCall = null
  /\ \E lines \in ExtractCorpora, limit \in ExtractLimits :
     \E revs \in {[k \in 1 .. Len(lines) |->
                     [id |-> "rev-" \o ToString(k), text |-> lines[k]]]} :
       /\ extractCall' = [reviews |-> revs, limit |-> limit]
       /\ topWordStats' = IF rev = "part_001"
                             THEN extractTopFreqWords(revs, limit)
                             ELSE extractTopFreqWords_part_002(revs, limit)
  /\ UNCHANGED <<rev, pc, response, reviews, localVars, appVars, uiVars,
                 confidenceCall, stemCall, integrityCall, sentimentCall>>

\* extractTopFreqWords as a function of its arguments, in the two revisions
\* that have it in the form the ranking is specified for.
InitExtract == \E r \in {"part_001", "part_002"} : InitRev(r)

SpecExtract == InitExtract /\ [][CallExtract]_vars

\* The largest number of distinct review ids and of distinct trigger words of
\* an aggregate the confidence is computed for.
MaxReviewCount == 60

MaxTriggers == 5

\* What reviewIds.size and uniqueTriggers.size can be together: both 0, or
\* both at least 1 (lines 271 and 273 add to the two sets in one branch).
AggregateSizes ==
  {<<0, 0>>} \cup ((1 .. MaxReviewCount) \X (1 .. MaxTriggers))

\* The confidence of one aggregate computed on its own, once.
CallConfidence ==
  /\ pc = "idle"
  /\ confidenceCall = null
  /\ \E size \in AggregateSizes :
       confidenceCall' = [reviewCount |-> size[1], triggers |-> size[2],
                          value |-> confidence(size[1], size[2])]
  /\ UNCHANGED <<rev, pc, response, reviews, localVars, appVars, uiVars,
                 extractCall, topWordStats, stemCall, integrityCall,
                 sentimentCall>>

\* The confidence of part_001 as a function of the two set sizes.
SpecConfidence == Init /\ [][CallConfidence]_vars

\* Words for the suffix rules: stems of several lengths, each with the
\* endings the rules of singularize and stemmer name or exempt.
StemStems ==
  {"a", "bu", "box", "cry", "gla", "hors", "stat", "test", "walk", "class",
   "quick", "flavor", "batter"}

StemEndings == {"", "s", "es", "ies", "ing", "ed", "ly", "ss", "us", "aes"}

StemWords == {stem \o ending : stem \in StemStems, ending \in StemEndings}

\* singularize (part_001) or stemmer (part_002) applied to one word, once.
CallStem ==
  /\ pc = "idle"
  /\ stemCall = null
  /\ \E word \in StemWords :
       stemCall' = [word |-> word,
                    value |-> IF rev = "part_001" THEN singularize(word)
                                                  ELSE stemmer(word)]
  /\ UNCHANGED <<rev, pc, response, reviews, localVars, appVars, uiVars,
                 extractCall, topWordStats, confidenceCall, integrityCall,
                 sentimentCall>>

\* The suffix rule of each revision as a function of the word.
SpecStem == InitExtract /\ [][CallStem]_vars

(***************************************************************************)
(* checkDatasetIntegrity (part_001)                                        *)
(***************************************************************************)
\* new Set(reviews.map(r => r.text.trim())).
uniqueTexts(revs) == {trim(revs[k].text) : k \in 1 .. Len(revs)}

\* 1 - (uniqueTexts.size / reviews.length) > 0.3 as IEEE doubles evaluate it.
\* Without a review the rate is NaN and the comparison false. When exactly
\* three tenths of the reviews repeat, size / length is the double next to
\* 0.7, 1 minus it is 0.30000000000000004, and that is greater than the
\* double 0.3: the comparison is true from three tenths on, not only above.
repetitionRateHigh(unique, total) ==
  total > 0 /\ 10 * (total - unique) >= 3 * total

\* reduce((acc, w) => acc + w.score, 0).
RECURSIVE totalOfScores(_)
totalOfScores(stats) ==
  IF stats = <<>> THEN 0 ELSE Head(stats).score + totalOfScores(Tail(stats))

\* A variant that applies the concentration rule to lists of any length.
entropyRuleApplies_always(topWords) == TRUE

\* if (topWords.length > 5).
entropyRuleApplies(topWords) == Len(topWords) > 5

\* (top3Score / totalScore) > 0.6: the quotient of two sums of integers is
\* the double 0.6 exactly when it is three fifths, and 0 / 0 is NaN.
concentrationHigh(topWords) ==
  5 * totalOfScores(sliceTo(topWords, 3)) > 3 * totalOfScores(topWords)

RepetitionWarning ==
  "High repetition detected: >30% of reviews are identical duplicates."

EntropyWarning ==
  "Low signal entropy: Dataset is dominated by just 2-3 keywords. Results may be skewed."

\* checkDatasetIntegrity: the warnings, in the order they are pushed.
checkDatasetIntegrity(revs, topWords) ==
  (IF repetitionRateHigh(Cardinality(uniqueTexts(revs)), Len(revs))
     THEN <<RepetitionWarning>> ELSE <<>>)
    \o (IF entropyRuleApplies(topWords) /\ concentrationHigh(topWords)
          THEN <<EntropyWarning>> ELSE <<>>)

\* The longest corpus and the longest list of WordStats given to
\* checkDatasetIntegrity.
MaxIntegrityReviews == 10

MaxIntegrityWords == 7

\* Corpora by their shape: total reviews of which the first unique have
\* texts of their own and the others repeat the last of these, as it is or
\* with a blank after it.
IntegrityCorpora ==
  {[k \in 1 .. total |->
      [id |-> "rev-" \o ToString(k),
       text |-> IF k <= unique THEN "text " \o ToString(k)
                ELSE "text " \o ToString(unique) \o pad]] :
     total \in 0 .. MaxIntegrityReviews, unique \in 1 .. MaxIntegrityReviews,
     pad \in {"", " "}}

\* Lists of WordStats in descending order of score, as extractTopFreqWords
\* returns them: up to three entries with one score, the others with a
\* score that is not higher.
IntegrityWordLists ==
  {[k \in 1 .. len |->
      [word |-> "w" \o ToString(k),
       count |-> IF k <= 3 THEN high ELSE low,
       score |-> IF k <= 3 THEN high ELSE low]] :
     len \in 0 .. MaxIntegrityWords, high \in {10, 15, 20}, low \in {5, 10}}

\* checkDatasetIntegrity called on its own, once.
CallIntegrity ==
  /\ pc = "idle"
  /\ integrityCall = null
  /\ \E revs \in IntegrityCorpora, topWords \in IntegrityWordLists :
       integrityCall' = [reviews |-> revs, topWords |-> topWords,
                         warnings |-> checkDatasetIntegrity(revs, topWords)]
  /\ UNCHANGED <<rev, pc, response, reviews, localVars, appVars, uiVars,
                 extractCall, topWordStats, confidenceCall, stemCall,
                 sentimentCall>>

\* checkDatasetIntegrity as a function of its arguments.
SpecIntegrity == Init /\ [][CallIntegrity]_vars

(***************************************************************************)
(* analyzeSentiment on its own                                             *)
(***************************************************************************)
\* Every compound polarity_scores can return, in hundredths.
CompoundRange == -100 .. 100

\* A clause without an intensifier and one with "worst".
SentimentTexts == {"The box broke", "The worst box"}

\* analyzeSentiment (part_001) called once on a matched clause, and the
\* segment lines 259-266 build from what it returns.
CallSentiment ==
  /\ pc = "idle"
  /\ sentimentCall = null
  /\ \E text \in SentimentTexts,
        vader \in {[throws |-> TRUE, compound |-> 0]}
                    \cup {[throws |-> FALSE, compound |-> c] : c \in CompoundRange} :
       sentimentCall' =
         [text |-> text, vader |-> vader,
          segment |-> aspectSegment(
                        [text |-> text,
                         match |-> [aspect |-> "Packaging", trigger |-> "box"]],
                        analyzeSentiment(text, vader))]
  /\ UNCHANGED <<rev, pc, response, reviews, localVars, appVars, uiVars,
                 extractCall, topWordStats, confidenceCall, stemCall,
                 integrityCall>>

SpecSentiment == Init /\ [][CallSentiment]_vars

\* The build that holds part_002.
InitPart002 == InitRev("part_002")
SpecPart002 == InitPart002 /\ [][Next]_vars

\* The build that holds part_003, where a sentiment call can throw out of
\* the scan.
InitPart003 == InitRev("part_003")
NextPart003 == Next \/ LocalAnalysisThrows
SpecPart003 == InitPart003 /\ [][NextPart003]_vars

\* ---------------------------------------------------------------------------
\* Properties of performLocalAnalysis (revision part_001)

RECURSIVE TotalSegments(_)
TotalSegments(analyzed) ==
  IF analyzed = <<>> THEN 0
  ELSE Len(Head(analyzed).segments) + TotalSegments(Tail(analyzed))

RECURSIVE AggregateTotal(_, _)
AggregateTotal(aggs, names) ==
  IF names = {} THEN 0
  ELSE LET n == CHOOSE x \in names : TRUE
       IN aggs[n].count + AggregateTotal(aggs, names \ {n})

RECURSIVE StatsTotal(_)
StatsTotal(stats) ==
  IF stats = <<>> THEN 0 ELSE Head(stats).count + StatsTotal(Tail(stats))

\* C1: Conservation. After every processed review the counts held per aspect
\* add up to the number of segments pushed so far, and in the returned result
\* the sum of count over stats equals the number of segments over reviews.
C1_Conservation ==
  /\ AggregateTotal(aspectAggregates, DOMAIN aspectAggregates)
       = TotalSegments(analyzedReviews)
  /\ localResult # null =>
       StatsTotal(localResult.stats) = TotalSegments(localResult.reviews)

\* A returned result of two reviews with four segments, one of them Neutral,
\* spread over two aspects.
C1_Witness ==
  /\ localResult # null
  /\ Len(localResult.reviews) = 2
  /\ TotalSegments(localResult.reviews) = 4
  /\ Len(localResult.stats) = 2
  /\ \A k \in 1 .. 2 : localResult.stats[k].count > 0
  /\ \E k \in 1 .. 2 : \E j \in 1 .. Len(localResult.reviews[k].segments) :
       localResult.reviews[k].segments[j].sentiment = "Neutral"

\* C4: No-match exclusion. Every review kept in the output has at least one
\* segment, and processing a review none of whose clauses matches a keyword
\* adds no review to the output and changes no aggregate.
C4_NoMatchExclusion ==
  /\ [](\A k \in 1 .. Len(analyzedReviews) :
          Len(analyzedReviews[k].segments) >= 1)
  /\ [](localResult # null =>
          \A k \in 1 .. Len(localResult.reviews) :
            Len(localResult.reviews[k].segments) >= 1)
  /\ [][(pc = "scan" /\ pc' \in {"scan", "yield"} /\ matchedSegments' = <<>>) =>
          /\ analyzedReviews' = analyzedReviews
          /\ aspectAggregates' = aspectAggregates]_vars

\* A corpus of two reviews where the last one processed matched nothing and
\* only the other one is in the returned result.
C4_Witness ==
  /\ localResult # null
  /\ Len(reviews) = 2
  /\ taxonomy # <<>>
  /\ matchedSegments = <<>>
  /\ Len(localResult.reviews) = 1
  /\ localResult.reviews[1].review_id = "rev-1"

Last(seq) == seq[Len(seq)]

\* C7: the values passed to onProgress never decrease and lie in 0..100, and
\* when the run completes the last call is onProgress(100); on an empty corpus
\* that is the only call.
C7_ProgressMonotone ==
  /\ \A k \in 1 .. Len(progressCalls) : progressCalls[k] \in 0 .. 100
  /\ \A k \in 1 .. (Len(progressCalls) - 1) :
       progressCalls[k] <= progressCalls[k + 1]
  /\ localResult # null =>
       /\ progressCalls # <<>>
       /\ Last(progressCalls) = 100
       /\ (reviews = <<>> => progressCalls = <<100>>)

\* A completed run over more than two batches, which reported 0, 50, 100 at
\* the batch boundaries and 100 at the end.
C7_Witness ==
  /\ localResult # null
  /\ Len(reviews) > 2 * BATCH_SIZE
  /\ progressCalls = <<0, 50, 100, 100>>

\* The number of awaits the loop has reached when it is at index k.
YieldsUpTo(k) == (k \div BATCH_SIZE) + 1

\* C8: no more than BATCH_SIZE reviews are processed between the start of the
\* run, two consecutive yields, and the end of the run, and each yield comes
\* right after a call of onProgress: at the n-th yield there have been exactly
\* n calls, the last one with the percentage of that index.
C8_YieldEveryBatch ==
  /\ sinceYield <= BATCH_SIZE
  /\ pc = "yield" =>
       /\ Len(progressCalls) = YieldsUpTo(i)
       /\ Last(progressCalls) = progressPercent(i, Len(reviews))
  /\ localResult # null =>
       Len(progressCalls) = (IF reviews = <<>> THEN 0
                             ELSE YieldsUpTo(Len(reviews) - 1)) + 1

\* The loop is suspended for the second time, a full batch after the first.
C8_Witness ==
  /\ pc = "yield"
  /\ i = BATCH_SIZE
  /\ sinceYield = BATCH_SIZE
  /\ progressCalls = <<0, 50>>

\* ---------------------------------------------------------------------------
\* Properties of matching, segmentation, scoring and discovery

\* The keyword stands in the text as a whole word or phrase, in any letter
\* case: no letter, digit or underscore touches either end of the occurrence.
OccursAsWord(keyword, text) ==
  LET k == toLowerCase(keyword)
      t == toLowerCase(text)
  IN \E p \in 1 .. (Len(t) - Len(k) + 1) :
       /\ SubSeq(t, p, p + Len(k) - 1) = k
       /\ (p = 1 \/ ~IsWordChar(Char(t, p - 1)))
       /\ (p + Len(k) > Len(t) \/ ~IsWordChar(Char(t, p + Len(k))))

\* The (aspect index, keyword index) pairs of the taxonomy that match a text.
MatchingPairs(text) ==
  {q \in UNION {{<<a, j>> : j \in 1 .. Len(taxonomy[a].keywords)} :
                  a \in 1 .. Len(taxonomy)} :
     OccursAsWord(taxonomy[q[1]].keywords[q[2]], text)}

KeywordAt(q) == taxonomy[q[1]].keywords[q[2]]

ComesBefore(q1, q2) == q1[1] < q2[1] \/ (q1[1] = q2[1] /\ q1[2] <= q2[2])

\* The pair the matching rule names: longest keyword, first in taxonomy
\* iteration order among the longest.
BestPair(text) ==
  CHOOSE q \in MatchingPairs(text) :
    \A o \in MatchingPairs(text) :
      \/ Len(KeywordAt(q)) > Len(KeywordAt(o))
      \/ (Len(KeywordAt(q)) = Len(KeywordAt(o)) /\ ComesBefore(q, o))

\* C2: every segment of the review last processed records, as trigger_word and
\* aspect, the longest keyword of the whole taxonomy that matches its clause,
\* the first one in taxonomy order among keywords of that length.
C2_LongestKeywordWins ==
  \A k \in 1 .. Len(matchedSegments) :
    LET seg == matchedSegments[k]
    IN /\ MatchingPairs(seg.segment_text) # {}
       /\ seg.trigger_word = KeywordAt(BestPair(seg.segment_text))
       /\ seg.aspect_category = taxonomy[BestPair(seg.segment_text)[1]].name

\* C3: a segment exists only for a clause in which a keyword of the segment's
\* aspect stands as a whole word or phrase in some letter case ("bar" inside
\* "barely" gives none), and while the scan runs every clause in which a
\* keyword stands as a whole word has its segment.
C3_WholeWordMatch ==
  /\ \A k \in 1 .. Len(matchedSegments) :
       \E a \in 1 .. Len(taxonomy) :
         /\ taxonomy[a].name = matchedSegments[k].aspect_category
         /\ \E j \in 1 .. Len(taxonomy[a].keywords) :
              OccursAsWord(taxonomy[a].keywords[j],
                           matchedSegments[k].segment_text)
  /\ pc \in {"scan", "yield", "returned"} =>
       \A c \in 1 .. Len(segmentsList) :
         MatchingPairs(segmentsList[c]) # {} =>
           \E k \in 1 .. Len(matchedSegments) :
             matchedSegments[k].segment_text = trim(segmentsList[c])

\* C5: for the review last processed, a non-empty text gave at least one
\* clause, and a text of at most two characters gave itself as the one clause.
C5_AtLeastOneClause ==
  (review # null /\ review.text # "") =>
    /\ Len(segmentsList) >= 1
    /\ (Len(trim(review.text)) <= 2 => segmentsList = <<review.text>>)

\* A contrastive conjunction stands as a word inside the clause, with text
\* before it and after it.
ConjunctionInside(clause) ==
  \E c \in {Conjunctions[n] : n \in 1 .. Len(Conjunctions)} :
    \E p \in 2 .. (Len(clause) - Len(c)) :
      /\ toLowerCase(SubSeq(clause, p, p + Len(c) - 1)) = c
      /\ ~IsWordChar(Char(clause, p - 1))
      /\ ~IsWordChar(Char(clause, p + Len(c)))

ScenarioA == "Battery life is great but the box was crushed."

ScenarioATaxonomy ==
  << [name |-> "Battery", keywords |-> <<"battery life">>],
     [name |-> "Packaging", keywords |-> <<"box">>] >>

\* The part of C6 about Scenario A: two clauses, and in a run over that one
\* review two segments of distinct aspects, each aspect with count 1 and
\* reviewCount 1.
ScenarioATwoClauses ==
  /\ (review # null /\ review.text = ScenarioA) => Len(segmentsList) = 2
  /\ (/\ localResult # null
      /\ Len(reviews) = 1
      /\ reviews[1].text = ScenarioA
      /\ taxonomy = ScenarioATaxonomy) =>
       /\ Len(localResult.reviews) = 1
       /\ Len(localResult.reviews[1].segments) = 2
       /\ localResult.reviews[1].segments[1].aspect_category
            # localResult.reviews[1].segments[2].aspect_category
       /\ Len(localResult.stats) = 2
       /\ \A k \in 1 .. 2 : /\ localResult.stats[k].count = 1
                            /\ localResult.stats[k].reviewCount = 1

\* C6: the segmenter splits at every contrastive conjunction, with or without
\* a comma before it, so no clause of the review last processed has a
\* conjunction inside it, and Scenario A gives two clauses and two aspects
\* with count 1 and reviewCount 1.
C6_SplitAtEveryConjunction ==
  /\ \A c \in 1 .. Len(segmentsList) : ~ConjunctionInside(segmentsList[c])
  /\ ScenarioATwoClauses

\* C9: when polarity_scores threw on a matched clause of the review last
\* processed, that clause has its segment, with Neutral and 0, every matched
\* clause of the review has a segment, and the run has not failed.
C9_ScorerTotal ==
  \A k \in 1 .. Len(vaderCalls) :
    vaderCalls[k].throws =>
      /\ error = null
      /\ Len(matchedSegments) = Len(vaderCalls)
      /\ matchedSegments[k].sentiment = "Neutral"
      /\ matchedSegments[k].sentiment_score = 0

\* What the collaborator did when it failed or returned malformed data.
FailedResponses ==
  {"no_api_key", "request_failed", "empty_text", "not_json",
   "json_without_aspects"}

\* C10: after a failed or malformed discovery the local pass is not started,
\* no result is produced, and the run has ended with an error.
C10_DiscoveryFailureSurfaced ==
  response \in FailedResponses =>
    /\ pc \notin {"scan", "yield", "returned"}
    /\ localResult = null
    /\ result = null
    /\ error # null

(***************************************************************************)
(* C11: the empty corpus                                                   *)
(***************************************************************************)
\* C11: once the Analyze button has been pressed on a content that holds no
\* review (nothing, or white space only) and the program is at rest, no error
\* is shown and there is an AnalysisResult with processedCount 0, no aspects
\* and no top words.
C11_EmptyCorpusResult ==
  (submitted # <<>> /\ trim(submitted[1]) = "" /\ pc = "idle") =>
    /\ error = null
    /\ result # null
    /\ result.processedCount = 0
    /\ result.aspects = <<>>
    /\ extractTopFreqWords(reviews, 100) = <<>>

(***************************************************************************)
(* C12: bounds                                                             *)
(***************************************************************************)
\* Every segment the scan holds: those of the review at hand and those of the
\* reviews already pushed.
AllSegments ==
  {matchedSegments[k] : k \in 1 .. Len(matchedSegments)}
    \cup UNION {{analyzedReviews[r].segments[k] :
                   k \in 1 .. Len(analyzedReviews[r].segments)} :
                r \in 1 .. Len(analyzedReviews)}

\* C12: with compounds in [-1, 1] (-100 .. 100 hundredths) every segment's
\* sentiment_score is in [-1, 1], and every returned AspectStats has its
\* net_sentiment in [-1, 1] and its confidence in [0, 1], aspects without a
\* match included.
C12_Bounds ==
  /\ \A seg \in AllSegments :
       seg.sentiment_score >= -100 /\ seg.sentiment_score <= 100
  /\ localResult # null =>
       \A k \in 1 .. Len(localResult.stats) :
         LET s == localResult.stats[k]
         IN /\ s.net_sentiment.num >= -100 * s.net_sentiment.den
            /\ s.net_sentiment.num <= 100 * s.net_sentiment.den
            /\ s.confidence >= 0
            /\ s.confidence <= 100

\* A result with an aspect nothing matched, an aspect two reviews matched,
\* and a segment whose score the intensifier rule left beyond the 0.85 clamp.
C12_Witness ==
  /\ localResult # null
  /\ \E k \in 1 .. Len(localResult.stats) : localResult.stats[k].count = 0
  /\ \E k \in 1 .. Len(localResult.stats) :
       localResult.stats[k].reviewCount = 2 /\ localResult.stats[k].confidence > 0
  /\ \E seg \in AllSegments : seg.sentiment_score < -85

(***************************************************************************)
(* C13: the tallies of an AspectStats entry                                *)
(***************************************************************************)
\* The segments of the returned reviews that belong to an aspect, each named
\* by its review's index and its own, and those among them with a label.
SegmentsOf(name) ==
  {q \in UNION {{<<r, k>> : k \in 1 .. Len(localResult.reviews[r].segments)} :
                r \in 1 .. Len(localResult.reviews)} :
     localResult.reviews[q[1]].segments[q[2]].aspect_category = name}

LabelledOf(name, label) ==
  {q \in SegmentsOf(name) :
     localResult.reviews[q[1]].segments[q[2]].sentiment = label}

\* The ids of the returned reviews with a segment of the aspect.
ReviewIdsOf(name) ==
  {localResult.reviews[q[1]].review_id : q \in SegmentsOf(name)}

\* C13: in the returned stats, count is the number of returned segments of
\* the aspect, reviewCount the number of distinct review ids among them,
\* positive, negative and neutral the numbers of those segments with each
\* label; so the three add up to count and reviewCount is at most count.
C13_TalliesMatchSegments ==
  localResult # null =>
    \A k \in 1 .. Len(localResult.stats) :
      LET s == localResult.stats[k]
      IN /\ s.count = Cardinality(SegmentsOf(s.name))
         /\ s.reviewCount = Cardinality(ReviewIdsOf(s.name))
         /\ s.positive = Cardinality(LabelledOf(s.name, "Positive"))
         /\ s.negative = Cardinality(LabelledOf(s.name, "Negative"))
         /\ s.neutral = Cardinality(LabelledOf(s.name, "Neutral"))
         /\ s.positive + s.negative + s.neutral = s.count
         /\ s.reviewCount <= s.count

\* A result where an aspect has segments of two reviews, one of them
\* Neutral with a score that is not 0, and another aspect has none.
C13_Witness ==
  /\ localResult # null
  /\ \E k \in 1 .. Len(localResult.stats) :
       /\ localResult.stats[k].reviewCount = 2
       /\ localResult.stats[k].neutral >= 1
       /\ \E q \in LabelledOf(localResult.stats[k].name, "Neutral") :
            localResult.reviews[q[1]].segments[q[2]].sentiment_score # 0
  /\ \E k \in 1 .. Len(localResult.stats) : localResult.stats[k].count = 0

(***************************************************************************)
(* C14: net_sentiment                                                      *)
(***************************************************************************)
\* The sum of the scores (hundredths) of a set of returned segments.
RECURSIVE SumScores(_)
SumScores(S) ==
  IF S = {} THEN 0
  ELSE LET q == CHOOSE x \in S : TRUE
       IN localResult.reviews[q[1]].segments[q[2]].sentiment_score
            + SumScores(S \ {q})

\* C14: in the returned stats, net_sentiment is the arithmetic mean of the
\* scores of the aspect's segments (num / den = sum / number, compared by
\* cross-multiplication), and 0 for an aspect without a segment.
C14_NetSentimentIsMean ==
  localResult # null =>
    \A k \in 1 .. Len(localResult.stats) :
      LET s == localResult.stats[k]
          segs == SegmentsOf(s.name)
      IN IF segs = {}
           THEN s.net_sentiment.num = 0
           ELSE s.net_sentiment.num * Cardinality(segs)
                  = s.net_sentiment.den * SumScores(segs)

(***************************************************************************)
(* C15: confidence                                                         *)
(***************************************************************************)
\* 10 * log2(50) times the blend 0.7 * min(1, log2(n + 1) / log2(50))
\* + 0.3 * min(1, t / 3), in ten-thousandths, without a division.
BlendTimes10Log50(n, t) ==
  LET log50 == log2Table[50]
      logN == log2Table[n + 1]
  IN 7 * (IF logN < log50 THEN logN ELSE log50)
       + log50 * (IF t < 3 THEN t ELSE 3)

\* How far the returned value (hundredths) is from the blend, in units of
\* 1 / (1000 * log2(50)) ten-thousandths.
BlendGap(n, t, value) ==
  LET d == value * log2Table[50] - 10 * BlendTimes10Log50(n, t)
  IN IF d < 0 THEN -d ELSE d

\* C15 as stated: the confidence is the blend itself (up to what the
\* rounding of the logarithm table can move it, 20 units).
C15_ConfidenceIsBlend ==
  confidenceCall # null =>
    BlendGap(confidenceCall.reviewCount, confidenceCall.triggers,
             confidenceCall.value) <= 20

\* C15 amended: the confidence is the blend rounded to two decimals (at most
\* 0.005 away from it); it is 0 for an aspect without a match, does not
\* decrease when reviewCount or the number of distinct triggers grows by one,
\* and in the number of triggers it stays what it is at 3 from 3 on and is
\* smaller below 3.
C15_ConfidenceIsRoundedBlend ==
  confidenceCall # null =>
    LET n == confidenceCall.reviewCount
        t == confidenceCall.triggers
        v == confidenceCall.value
    IN /\ 2 * BlendGap(n, t, v) <= log2Table[50] + 40
       /\ (n = 0 /\ t = 0) => v = 0
       /\ v <= confidence(n + 1, t)
       /\ v <= confidence(n, t + 1)
       /\ t >= 3 => v = confidence(n, 3)
       /\ t < 3 => v < confidence(n, 3)

\* A computed confidence the rounding moved: 0.7 * log2(2) / log2(50) + 0.1
\* = 0.22403 returned as 0.22.
C15_Witness ==
  /\ confidenceCall # null
  /\ confidenceCall.reviewCount = 1
  /\ confidenceCall.triggers = 1
  /\ confidenceCall.value = 22

(***************************************************************************)
(* C16: the order of the statistics                                        *)
(***************************************************************************)
\* C16: in the list performLocalAnalysis returns, of any two adjacent
\* AspectStats the earlier one has a count at least as large as the later one.
C16_SortedByCount ==
  localResult # null =>
    \A k \in 1 .. (Len(localResult.stats) - 1) :
      localResult.stats[k].count >= localResult.stats[k + 1].count

\* A result whose first entry has more segments than its second and is not
\* the aspect the taxonomy lists first: the sort has moved it.
C16_Witness ==
  /\ localResult # null
  /\ Len(localResult.stats) >= 2
  /\ localResult.stats[1].count > localResult.stats[2].count
  /\ localResult.stats[1].name # taxonomy[1].name

(***************************************************************************)
(* C17: the length and the order of the signals                            *)
(***************************************************************************)
\* The value a WordStat is ranked by: its score, or its count in part_002,
\* whose WordStat has a word and a count only.
RankOf(stat) == IF rev = "part_001" THEN stat.score ELSE stat.count

\* C17: what extractTopFreqWords(reviews, limit) returns holds at most limit
\* WordStats, and of any two adjacent ones the earlier has a ranking value at
\* least as large as the later.
C17_AtMostLimitByScore ==
  extractCall # null =>
    /\ Len(topWordStats) <= extractCall.limit
    /\ \A k \in 1 .. (Len(topWordStats) - 1) :
         RankOf(topWordStats[k]) >= RankOf(topWordStats[k + 1])

\* Three reviews "box battery battery" with limit 1: "box" is counted first,
\* "battery" ranks higher, and only "battery" is returned.
C17_Witness ==
  /\ extractCall # null
  /\ extractCall.limit = 1
  /\ Len(extractCall.reviews) = 3
  /\ \A k \in 1 .. 3 : extractCall.reviews[k].text = "box battery battery"
  /\ Len(topWordStats) = 1
  /\ topWordStats[1].word = "battery"

(***************************************************************************)
(* C18: the noise floor of bigrams                                         *)
(***************************************************************************)
\* The tokens of a review text in the revision the build holds.
TokensIn(text) ==
  IF rev = "part_001" THEN tokensOf(text) ELSE tokensOf_part_002(text)

\* How often a bigram occurs in the corpus of the call: the positions, in
\* every review, where its two words are adjacent tokens.
BigramOccurrences(bigram) ==
  Cardinality(
    UNION {{<<r, k>> : k \in {k \in 1 .. (Len(tokens) - 1) :
                               tokens[k] \o " " \o tokens[k + 1] = bigram}} :
           <<r, tokens>> \in {<<r, TokensIn(extractCall.reviews[r].text)>> :
                                r \in 1 .. Len(extractCall.reviews)}})

IsBigram(word) == \E k \in 1 .. Len(word) : Char(word, k) = " "

\* C18: every bigram extractTopFreqWords returns occurs at least 3 times in
\* the corpus.
C18_BigramNoiseFloor ==
  extractCall # null =>
    \A k \in 1 .. Len(topWordStats) :
      IsBigram(topWordStats[k].word) =>
        BigramOccurrences(topWordStats[k].word) >= 3

\* A returned bigram that occurs exactly 3 times, once in each review.
C18_Witness ==
  /\ extractCall # null
  /\ Len(extractCall.reviews) = 3
  /\ \E k \in 1 .. Len(topWordStats) :
       /\ topWordStats[k].word = "battery life"
       /\ BigramOccurrences("battery life") = 3

(***************************************************************************)
(* C19: corpora without a signal                                           *)
(***************************************************************************)
\* The words of a cleaned text: the non-empty pieces between white space.
RECURSIVE WordsOf(_, _, _)
WordsOf(s, k, piece) ==
  IF k > Len(s) \/ IsSpace(Char(s, k))
    THEN (IF Len(piece) > 0 THEN <<piece>> ELSE <<>>)
           \o (IF k > Len(s) THEN <<>> ELSE WordsOf(s, k + 1, ""))
    ELSE WordsOf(s, k + 1, piece \o Char(s, k))

\* Every word of the review, as written (lower-cased, punctuation dropped),
\* is in the stop-word set of the revision.
OnlyStopWords(text) ==
  LET words == IF rev = "part_001"
                 THEN WordsOf(cleanText(text), 1, "")
                 ELSE WordsOf(cleanText_part_002(text), 1, "")
      stops == IF rev = "part_001" THEN STOP_WORDS ELSE STOP_WORDS_part_002
  IN \A k \in 1 .. Len(words) : words[k] \in stops

\* C19: for a corpus without a review, and for a corpus in which every word
\* of every review is a stop word, extractTopFreqWords returns the empty
\* list.
C19_NoSignalFromStopWords ==
  (/\ extractCall # null
   /\ \A k \in 1 .. Len(extractCall.reviews) :
        OnlyStopWords(extractCall.reviews[k].text))
    => topWordStats = <<>>

(***************************************************************************)
(* C21: normalization applied twice                                        *)
(***************************************************************************)
\* The suffix rule of the revision the build holds.
StemOf(w) == IF rev = "part_001" THEN singularize(w) ELSE stemmer(w)

\* C21: the suffix rule applied to its own result changes nothing,
\* stem(stem(w)) = stem(w), and the result is not a token the length filter
\* of a second pass removes when the word itself passed it.
C21_StemIdempotent ==
  stemCall # null =>
    /\ StemOf(stemCall.value) = stemCall.value
    /\ Len(stemCall.word) > 2 => Len(stemCall.value) > 2

(***************************************************************************)
(* C22, C23: the rules of checkDatasetIntegrity                            *)
(***************************************************************************)
Warned(call, warning) ==
  \E k \in 1 .. Len(call.warnings) : call.warnings[k] = warning

\* C22: checkDatasetIntegrity returns the repetition warning exactly when
\* 1 - uniqueTexts / totalReviews is greater than 0.3, that is when
\* 10 * (total - unique) > 3 * total, and never for a corpus without a review.
C22_RepetitionRule ==
  integrityCall # null =>
    LET total == Len(integrityCall.reviews)
        unique == Cardinality({trim(integrityCall.reviews[k].text) :
                                 k \in 1 .. total})
    IN Warned(integrityCall, RepetitionWarning)
         <=> (total > 0 /\ 10 * (total - unique) > 3 * total)

\* The sum of the scores at a set of positions of a list of WordStats.
RECURSIVE ScoreAt(_, _)
ScoreAt(stats, positions) ==
  IF positions = {} THEN 0
  ELSE LET k == CHOOSE x \in positions : TRUE
       IN stats[k].score + ScoreAt(stats, positions \ {k})

\* The largest sum three entries of the list have (all of them when the
\* list has fewer).
ThreeHighest(stats) ==
  LET size == IF Len(stats) < 3 THEN Len(stats) ELSE 3
      sums == {ScoreAt(stats, S) :
                 S \in {T \in SUBSET (1 .. Len(stats)) : Cardinality(T) = size}}
  IN CHOOSE m \in sums : \A other \in sums : m >= other

\* More than 0.6 of the summed score lies in the three highest scores.
Concentrated(stats) ==
  5 * ThreeHighest(stats) > 3 * ScoreAt(stats, 1 .. Len(stats))

C24_LabelFollowsScore ==
  sentimentCall # null =>
    LET seg == sentimentCall.segment
    IN /\ seg.sentiment = "Positive" <=> seg.sentiment_score >= 5
       /\ seg.sentiment = "Negative" <=> seg.sentiment_score <= -5
       /\ seg.sentiment = "Neutral"
            <=> (seg.sentiment_score > -5 /\ seg.sentiment_score < 5)

\* A segment with the score 0.05, Positive.
C24_Witness ==
  /\ sentimentCall # null
  /\ ~sentimentCall.vader.throws
  /\ sentimentCall.segment.sentiment_score = 5
  /\ sentimentCall.segment.sentiment = "Positive"

(***************************************************************************)
(* C25: aspects without a keyword                                          *)
(***************************************************************************)
\* The taxonomy without its aspects that have no keyword.
RECURSIVE WithoutInert(_)
WithoutInert(tax) ==
  IF tax = <<>> THEN <<>>
  ELSE (IF Head(tax).keywords = <<>> THEN <<>> ELSE <<Head(tax)>>)
         \o WithoutInert(Tail(tax))

InertNames(tax) ==
  {tax[k].name : k \in {j \in 1 .. Len(tax) : tax[j].keywords = <<>>}}

\* What the clauses of the review at hand match in a taxonomy: clause,
\* aspect and trigger, in order.
MatchesIn(tax) ==
  LET matched == matchedClauses("part_001", segmentsList, tax)
  IN [k \in 1 .. Len(matched) |->
        <<matched[k].text, matched[k].match.aspect, matched[k].match.trigger>>]

\* C25: no segment belongs to an aspect without a keyword; the segments of
\* the review at hand are those the taxonomy without such aspects gives;
\* the local pass does not end in an error; every such aspect is returned
\* with count 0; and for a taxonomy without an aspect the pass returns no
\* review and no statistics.
C25_EmptyAspectInert ==
  /\ \A seg \in AllSegments : seg.aspect_category \notin InertNames(taxonomy)
  /\ (pc \in {"scan", "yield"} /\ review # null) =>
       [k \in 1 .. Len(matchedSegments) |->
          <<matchedSegments[k].segment_text, matchedSegments[k].aspect_category,
            matchedSegments[k].trigger_word>>]
         = MatchesIn(WithoutInert(taxonomy))
  /\ pc \in {"scan", "yield", "returned"} => error = null
  /\ localResult # null =>
       /\ \A k \in 1 .. Len(localResult.stats) :
            localResult.stats[k].keywords = <<>> => localResult.stats[k].count = 0
       /\ \A name \in InertNames(taxonomy) :
            \E k \in 1 .. Len(localResult.stats) : localResult.stats[k].name = name
       /\ taxonomy = <<>> =>
            (localResult.stats = <<>> /\ localResult.reviews = <<>>)

\* A finished pass over a corpus of which both other aspects got a segment,
\* with the aspect without a keyword returned at count 0.
C25_Witness ==
  /\ localResult # null
  /\ InertNames(taxonomy) # {}
  /\ Len(localResult.stats) = 3
  /\ localResult.stats[1].count > 0
  /\ localResult.stats[2].count > 0
  /\ localResult.stats[3].keywords = <<>>
  /\ localResult.stats[3].count = 0

(***************************************************************************)
(* C26: filtered words as phrase boundaries                                *)
(***************************************************************************)
\* Every word of a review in the form tokens have (singularized in
\* part_001), the filtered ones included.
AllWordsIn(text) ==
  IF rev = "part_001"
    THEN LET words == WordsOf(cleanText(text), 1, "")
         IN [k \in 1 .. Len(words) |-> singularize(words[k])]
    ELSE WordsOf(cleanText_part_002(text), 1, "")

\* The places of the corpus where the two words of a bigram stand next to
\* each other with no word at all between them.
DirectOccurrences(bigram) ==
  Cardinality(
    UNION {{<<r, k>> : k \in {k \in 1 .. (Len(words) - 1) :
                               words[k] \o " " \o words[k + 1] = bigram}} :
           <<r, words>> \in {<<r, AllWordsIn(extractCall.reviews[r].text)>> :
                               r \in 1 .. Len(extractCall.reviews)}})

\* C26: a bigram is counted only where no filtered word stands between its
\* two words, so every returned bigram, which was counted 3 times or more,
\* has 3 or more places where its words are next to each other in the text.
C26_FilteredWordsSeparate ==
  extractCall # null =>
    \A k \in 1 .. Len(topWordStats) :
      IsBigram(topWordStats[k].word) =>
        DirectOccurrences(topWordStats[k].word) >= 3

(***************************************************************************)
(* C27: the count of a WordStat                                            *)
(***************************************************************************)
\* How often a word occurs as a token in the corpus of the call.
UnigramOccurrences(word) ==
  Cardinality(
    UNION {{<<r, k>> : k \in {k \in 1 .. Len(tokens) : tokens[k] = word}} :
           <<r, tokens>> \in {<<r, TokensIn(extractCall.reviews[r].text)>> :
                                r \in 1 .. Len(extractCall.reviews)}})

\* C27: the count of every returned WordStat is the number of occurrences of
\* its token in the corpus: of the word for a unigram, of the pair of
\* adjacent tokens for a bigram.
C27_CountIsOccurrences ==
  extractCall # null =>
    \A k \in 1 .. Len(topWordStats) :
      topWordStats[k].count
        = IF IsBigram(topWordStats[k].word)
            THEN BigramOccurrences(topWordStats[k].word)
            ELSE UnigramOccurrences(topWordStats[k].word)

(***************************************************************************)
(* C28: what the AnalysisResult combines                                   *)
(***************************************************************************)
\* C28: the result set at the end of a successful run holds the analyzed
\* reviews and the statistics of the local pass, the size of the corpus, and
\* the warnings checkDatasetIntegrity gives for the corpus and its signals.
C28_ResultCarriesWarnings ==
  result # null =>
    /\ result.reviews = localResult.reviews
    /\ result.aspects = localResult.stats
    /\ result.processedCount = Len(reviews)
    /\ "warnings" \in DOMAIN result
    /\ result.warnings
         = checkDatasetIntegrity(reviews, extractTopFreqWords(reviews, 100))

(***************************************************************************)
(* C29: the life of a run                                                  *)
(***************************************************************************)
\* Whether the sentiment calls of the review under the loop can all return,
\* which is when ProcessReview can be taken.
IterationCanRun ==
  (pc = "scan" /\ i < Len(reviews)) =>
    \E matched \in {matchedClauses(rev, Clauses(rev, reviews[i + 1].text),
                                   taxonomy)} :
      \E vader \in [1 .. Len(matched) -> VaderOutcomes] :
        \A k \in 1 .. Len(matched) :
          ~Analyze(rev, matched[k].text, vader[k]).threw

\* C29: a started run ends, with isAnalyzing false and progress 0 (the loop
\* iteration the host is fair to can always be taken); at rest with an
\* error there is no result, and the error is one message; result and error
\* are never both set; and no step taken while isAnalyzing is true starts a
\* run (none takes a new corpus, submits a content or returns to the
\* discovery).
C29_RunLifecycle ==
  /\ []IterationCanRun
  /\ isAnalyzing ~> (~isAnalyzing /\ progress = 0)
  /\ [](~(result # null /\ error # null))
  /\ []((pc = "idle" /\ error # null) =>
          (result = null /\ DOMAIN error = {"message"} /\ ~isAnalyzing
             /\ progress = 0))
  /\ [][isAnalyzing => (reviews' = reviews /\ pc' # "discover"
                          /\ submitted' = submitted)]_vars

\* At rest after a run on two reviews that failed in the discovery.
C29_Witness ==
  /\ pc = "idle"
  /\ error # null
  /\ result = null
  /\ ~isAnalyzing
  /\ progress = 0
  /\ Len(reviews) = 2
  /\ submitted # <<>>

(***************************************************************************)
(* C30: termination and order of performLocalAnalysis                      *)
(***************************************************************************)
\* The number of reviews the loop has been through.
Processed == IF pc = "yield" THEN i + 1 ELSE i

\* The place in the corpus of the review with this id.
PlaceOf(id) == CHOOSE k \in 1 .. Len(reviews) : reviews[k].id = id

\* The kept reviews are reviews of the corpus, each id once, in input order.
InInputOrder(kept) ==
  /\ \A k \in 1 .. Len(kept) :
       \E n \in 1 .. Len(reviews) :
         /\ reviews[n].id = kept[k].review_id
         /\ reviews[n].text = kept[k].original_text
  /\ \A k \in 1 .. Len(kept) : \A n \in 1 .. Len(kept) :
       k < n => PlaceOf(kept[k].review_id) < PlaceOf(kept[n].review_id)

\* The segment names an aspect of the taxonomy and one of its keywords.
FromTaxonomy(seg) ==
  \E k \in 1 .. Len(taxonomy) :
    /\ taxonomy[k].name = seg.aspect_category
    /\ \E n \in 1 .. Len(taxonomy[k].keywords) :
         taxonomy[k].keywords[n] = seg.trigger_word

====
